---- MODULE Spec2Model ----
(***************************************************************************)
(* A model of the resilient fetch pipeline of statuscompliance/databinder: *)
(* the error taxonomy and its classifier predicates (core/errors), the     *)
(* retry engine withRetry / calculateDelay (utils/retryUtils), the fetch   *)
(* executor fetchData / buildUrl / getById (RestApiDatasource), the string  *)
(* sanitizer (utils/sanitize) and DataBinder.fetchFromDatasource, fetchAll, *)
(* createResultIterator and applyMapping (core/DataBinder).                *)
(*                                                                         *)
(* Conventions.  A JavaScript undefined number is written 0 (every test  *)
(* the code applies to such a field is a truthiness test or a comparison   *)
(* that 0 and undefined answer alike).  An options object is a function    *)
(* whose DOMAIN is the set of keys the caller supplied.  The jitter factor *)
(* is counted in tenths (3 is 0.3) and a Math.random() draw is r/RandDen,  *)
(* r \in 0..RandDen-1.  Strings the code edits are sequences of characters.*)
(***************************************************************************)
EXTENDS Integers, Sequences, FiniteSets, TLC

VARIABLES
    opts,       \* withRetry: the options object the caller passed
    fn,         \* withRetry: the operation (its behaviour per invocation)
    pc,         \* withRetry: position of the call
    attempt,    \* withRetry: loop counter attempt
    lastError,  \* withRetry: lastError
    outcome,    \* withRetry: how the call ended (value returned / error raised)
    calls,      \* number of invocations of fn so far
    sleeps,     \* the backoff delays slept so far, in order
    aborted,    \* options.signal.aborted
    timers,     \* attempts whose setTimeout timer is still pending
    inflight,   \* invocations of fn whose promise has not settled yet
    delay,      \* calculateDelay: one application (inputs and result)
    fetch,      \* fetchData: the arguments of the call and the remote's behaviour
    binder,     \* DataBinder.fetchFromDatasource: one call
    request,    \* one run of the operation fetchData hands to withRetry
    auth,       \* applyAuthentication and the cookie layers of one request
    iter,       \* DataBinder.fetchAll: the ids requested and the position of the iteration
    applied     \* one application of a function of the pipeline (arguments and result)

retryVars == <<opts, fn, pc, attempt, lastError, outcome, calls, sleeps, aborted, timers, inflight>>
vars == <<opts, fn, pc, attempt, lastError, outcome, calls, sleeps, aborted, timers, inflight, delay, fetch,
          binder,
          request, auth, iter, applied>>

----------------------------------------------------------------------------
(* Bounds of the model *)

\* largest maxRetries a caller passes
MaxRetriesBound == 2
\* resolution of Math.random(): draws are r/RandDen
RandDen == 10
\* largest attempt index calculateDelay is applied to on its own
MaxDelayAttempt == 3
\* largest number of items a datasource method returns to the batch iterator
MaxItems == 5
\* largest batchSize the batch iterator is created with
MaxBatchSize == 3
\* largest number of datasource ids the batch iterator is created with
MaxIds == 2
\* longest string sanitizeString is applied to on its own
MaxInputLen == 6

(* Program constants *)

\* jitter is counted in 1/JitterDen
JitterDen == 10
DefaultMaxRetries == 3
DefaultBaseDelay == 300
DefaultMaxDelay == 10000
DefaultJitter == 3
DefaultTimeout == 30000
TimeoutStatus == 408
NotFoundStatus == 404
FetchDefaultMaxRetries == 2
FetchDefaultBaseDelay == 300

----------------------------------------------------------------------------
(* Helpers *)

Min(a, b) == IF a <= b THEN a ELSE b

RECURSIVE Pow2(_)
Pow2(n) == IF n <= 0 THEN 1 ELSE 2 * Pow2(n - 1)

\* a destructuring default: options.k, or d when the key is absent
Get(o, k, d) == IF k \in DOMAIN o THEN o[k] ELSE d

NoOptions == [k \in {} |-> 0]

----------------------------------------------------------------------------
(* Error taxonomy: core/errors *)

\* an error value: its class (kind), error.name, the three places a status can
\* sit, error.code, and whether error.message includes Failed to fetch or
\* Network request failed
ClassName(kind) ==
    CASE kind = "InvalidConfig" -> "InvalidConfigError"
      [] kind = "Authentication" -> "AuthenticationError"
      [] kind = "Network" -> "NetworkError"
      [] kind = "NotFound" -> "NotFoundError"
      [] kind = "Timeout" -> "TimeoutError"
      [] OTHER -> "Error"

DataBinderError(kind, code, status, netMsg) ==
    [kind |-> kind, name |-> ClassName(kind), code |-> code, status |-> status,
     statusCode |-> 0, respStatus |-> 0, netMsg |-> netMsg]

InvalidConfigError(netMsg) == DataBinderError("InvalidConfig", "INVALID_CONFIG_ERROR", 0, netMsg)

AuthenticationError(status, netMsg) ==
    DataBinderError("Authentication", "AUTHENTICATION_ERROR", status, netMsg)

NetworkError(status, netMsg) == DataBinderError("Network", "NETWORK_ERROR", status, netMsg)

NotFoundError(status, netMsg) ==
    DataBinderError("NotFound", "NOT_FOUND_ERROR", IF status # 0 THEN status ELSE NotFoundStatus, netMsg)

TimeoutError(netMsg) == DataBinderError("Timeout", "TIMEOUT_ERROR", TimeoutStatus, netMsg)

\* an error that is none of the library's classes (TypeError, DOMException, plain
\* Error, an HTTP client's error object)
RawError(name, code, status, statusCode, netMsg) ==
    [kind |-> "Raw", name |-> name, code |-> code, status |-> status,
     statusCode |-> statusCode, respStatus |-> 0, netMsg |-> netMsg]

\* a rejection whose reason is null or undefined
NullReason == [kind |-> "Null", name |-> "", code |-> "", status |-> 0, statusCode |-> 0,
               respStatus |-> 0, netMsg |-> FALSE]

\* no error yet (lastError before the first failure)
NoError == [kind |-> "None", name |-> "", code |-> "", status |-> 0, statusCode |-> 0,
            respStatus |-> 0, netMsg |-> FALSE]

\* the TypeError of reading a property of null / undefined, or of an invalid URL
TypeError == RawError("TypeError", "", 0, 0, FALSE)

TaxonomyKinds == {"Network", "Authentication", "NotFound", "Timeout", "InvalidConfig"}

\* error instanceof NetworkError (TimeoutError extends NetworkError)
InstanceOfNetworkError(e) == e.kind \in {"Network", "Timeout"}

isHttpError(e, statusCode) ==
    /\ e.kind # "Null"
    /\ \/ e.status = statusCode
       \/ e.statusCode = statusCode
       \/ e.respStatus = statusCode

isNetworkError(e) ==
    /\ e.kind # "Null"
    /\ \/ InstanceOfNetworkError(e)
       \/ e.code \in {"ECONNRESET", "ECONNREFUSED", "ENOTFOUND"}
       \/ e.netMsg

\* error.status || error.statusCode || (error.response && error.response.status)
FirstStatus(e) ==
    IF e.status # 0 THEN e.status
    ELSE IF e.statusCode # 0 THEN e.statusCode
    ELSE e.respStatus

isServerError(e) == FirstStatus(e) >= 500 /\ FirstStatus(e) < 600

isRetryableError(e) ==
    \/ isNetworkError(e)
    \/ isServerError(e)
    \/ isHttpError(e, 429)
    \/ e.kind = "Timeout"

\* isRetryableError(null) reads null.status in isServerError and throws
isRetryableErrorThrows(e) == e.kind = "Null"

----------------------------------------------------------------------------
(* Sanitizing: utils/sanitize *)

\* representatives of [\x00-\x1F\x7F-\x9F]
ControlChars == {"\t", "\n"}

\* the character class of the second replace: ; & < > double quote, quote, backquote
\* (DQ, SQ and BQ stand for those three)
DangerousChars == {";", "&", "<", ">", "DQ", "SQ", "BQ"}

RemoveChars(s, S) == SelectSeq(s, LAMBDA c : c \notin S)

\* the third replace, of every ../ by nothing: one pass, left to right, matches do not overlap
RECURSIVE RemoveTraversal(_)
RemoveTraversal(s) ==
    IF Len(s) < 3 THEN s
    ELSE IF SubSeq(s, 1, 3) = <<".", ".", "/">>
         THEN RemoveTraversal(SubSeq(s, 4, Len(s)))
         ELSE <<Head(s)>> \o RemoveTraversal(Tail(s))

sanitizeString(input) ==
    IF input = <<>> THEN <<>>
    ELSE RemoveTraversal(RemoveChars(RemoveChars(input, ControlChars), DangerousChars))

\* the base addresses of the model and what new URL(url) makes of them:
\* "" is an absent baseUrl, "not a url" does not parse
BaseUrls == {"https://api.example.com", "", "ftp://files.example.com", "not a url"}

UrlParses(url) == url \in {"https://api.example.com", "ftp://files.example.com"}

UrlProtocol(url) == IF url = "https://api.example.com" THEN "https:" ELSE "ftp:"

sanitizeUrl(url) ==
    IF ~UrlParses(url) THEN ""
    ELSE IF UrlProtocol(url) \notin {"http:", "https:"} THEN ""
    ELSE url

----------------------------------------------------------------------------
(* Fetch executor: RestApiDatasource buildUrl / fetchData *)

RECURSIVE DropSlashes(_)
DropSlashes(s) == IF s # <<>> /\ Head(s) = "/" THEN DropSlashes(Tail(s)) ELSE s

\* new URL(input, base) throws a TypeError: of the inputs the URL parser rejects
\* against an http(s) base, those that open an authority ("//") with an empty host
NewUrlThrows(input) ==
    /\ Len(input) >= 2
    /\ SubSeq(input, 1, 2) = <<"/", "/">>
    /\ LET rest == DropSlashes(input)
       IN  rest = <<>> \/ Head(rest) \in {"?", "#"}

\* a result: the invocation that produced it and the kind of payload
Value(call, data) == [call |-> call, data |-> data]

NoValue == Value(0, "none")

Ok(v) == [type |-> "return", value |-> v, error |-> NoError]

Fail(e) == [type |-> "throw", value |-> NoValue, error |-> e]

\* a name every object inherits a property for from Object.prototype: under it
\* config.endpoints[endpointKey] is a function unless the object has its own entry
InheritedKeys == {<<"t", "o", "S", "t", "r", "i", "n", "g">>}

\* buildUrl(config, endpoint): the URL, an InvalidConfigError, the TypeError of
\* sanitizeString applied to what is no string, or the TypeError of
\* new URL(customEndpoint, safeBaseUrl)
buildUrl(config, endpoint) ==
    IF config.baseUrl = "" THEN Fail(InvalidConfigError(FALSE))
    ELSE
      LET sanitizedEndpoint == sanitizeString(endpoint)
          endpointKey == IF sanitizedEndpoint # <<>> /\ Head(sanitizedEndpoint) = "/"
                         THEN Tail(sanitizedEndpoint) ELSE sanitizedEndpoint
          endpoints == Get(config, "endpoints", <<>>)
          customEndpoint == IF endpointKey \in DOMAIN endpoints /\ endpoints[endpointKey] # <<>>
                            THEN sanitizeString(endpoints[endpointKey])
                            ELSE sanitizedEndpoint
          safeBaseUrl == sanitizeUrl(config.baseUrl)
      IN  IF /\ "endpoints" \in DOMAIN config
             /\ endpointKey \in InheritedKeys \ DOMAIN endpoints
          THEN Fail(TypeError)
          ELSE IF safeBaseUrl = "" THEN Fail(InvalidConfigError(FALSE))
          ELSE IF NewUrlThrows(customEndpoint) THEN Fail(TypeError)
          ELSE Ok([base |-> safeBaseUrl, path |-> customEndpoint])

\* options?.retryOptions?.maxRetries || 2, ...baseDelay || 300, timeout: config.timeout
FetchRetryOptions(config, options) ==
    LET ro == Get(options, "retryOptions", NoOptions)
        m == Get(ro, "maxRetries", 0)
        b == Get(ro, "baseDelay", 0)
    IN  [maxRetries |-> IF m # 0 THEN m ELSE FetchDefaultMaxRetries,
         baseDelay |-> IF b # 0 THEN b ELSE FetchDefaultBaseDelay,
         timeout |-> config.timeout]

\* what the remote end does in one attempt: it answers with a status and a body,
\* the connection fails (fetch rejects with a TypeError), or the deadline of
\* AbortSignal.timeout(config.timeout) passes (fetch rejects with a DOMException
\* named "TimeoutError")
Statuses == {200, 401, 403, 404, 429, 500}

Bodies == {"object", "list", "null", "unparsable"}

Remotes(config) ==
    [type : {"response"}, status : Statuses, body : Bodies]
    \cup {[type |-> "failure", status |-> 0, body |-> "null"]}
    \cup IF config.timeout # 0
         THEN {[type |-> "deadline", status |-> 0, body |-> "null"],
               [type |-> "abort", status |-> 0, body |-> "null"]}
         ELSE {}

DeadlineException == RawError("TimeoutError", "", 0, 0, FALSE)

\* the rejection of a fetch that reports every abort as a DOMException named
\* "AbortError", whatever the reason of the signal
AbortException == RawError("AbortError", "", 0, 0, FALSE)

ConnectionFailure == RawError("TypeError", "", 0, 0, TRUE)

\* a mutant of HttpError: every status is reported as a Network error
HttpErrorAllNetwork(status) == NetworkError(status, FALSE)

\* the status mapping of a response that is not ok
HttpError(status) ==
    IF status = 401 THEN AuthenticationError(status, FALSE)
    ELSE IF status = 403 THEN AuthenticationError(status, FALSE)
    ELSE IF status = 404 THEN NotFoundError(status, FALSE)
    ELSE IF status >= 500 THEN NetworkError(status, FALSE)
    ELSE NetworkError(status, FALSE)

\* the try block of one attempt
FetchTry(config, endpoint, options, remote) ==
    LET finalEndpoint == IF Get(options, "endpoint", <<>>) # <<>>
                         THEN options.endpoint ELSE endpoint
        url == buildUrl(config, finalEndpoint)
        ok == remote.status >= 200 /\ remote.status <= 299
    IN  IF url.type = "throw" THEN url
        ELSE IF Get(options, "invalidHeader", FALSE) THEN Fail(TypeError)
        ELSE IF remote.type = "failure" THEN Fail(ConnectionFailure)
        ELSE IF remote.type = "deadline" THEN Fail(DeadlineException)
        ELSE IF remote.type = "abort" THEN Fail(AbortException)
        ELSE IF ~ok /\ Get(options, "throwHttpErrors", TRUE) THEN Fail(HttpError(remote.status))
        ELSE IF Get(options, "responseFormat", "") = "stream" THEN Ok(Value(0, "stream"))
        ELSE IF Get(options, "fullResponse", FALSE) THEN Ok(Value(0, "full"))
        ELSE IF Get(options, "responseFormat", "") = "batch"
             THEN IF remote.body = "null" THEN Fail(TypeError) ELSE Ok(Value(0, "batch"))
        ELSE Ok(Value(0, "default"))

\* the attempt gets as far as await fetch(url, requestOptions): the URL is built
\* and the headers are set without an exception
FetchAwaitsRemote(config, endpoint, options) ==
    LET finalEndpoint == IF Get(options, "endpoint", <<>>) # <<>>
                         THEN options.endpoint ELSE endpoint
    IN  buildUrl(config, finalEndpoint).type = "return" /\ ~Get(options, "invalidHeader", FALSE)

\* the catch block of one attempt: what it throws for the error caught
FetchCatch(config, endpoint, error) ==
    IF error.kind = "Raw" /\ error.name = "AbortError"
    THEN LET url == buildUrl(config, endpoint)
         IN  IF url.type = "throw" THEN url ELSE Fail(TimeoutError(FALSE))
    ELSE IF error.kind \in TaxonomyKinds THEN Fail(error)
    ELSE LET url == buildUrl(config, endpoint)
         IN  IF url.type = "throw" THEN url ELSE Fail(NetworkError(0, error.netMsg))

\* one run of the operation fetchData hands to withRetry
FetchAttempt(config, endpoint, options, remote) ==
    LET t == FetchTry(config, endpoint, options, remote)
    IN  IF t.type = "return" THEN t ELSE FetchCatch(config, endpoint, t.error)

FetchOutcomes(f) ==
    {FetchAttempt(f.config, f.endpoint, f.options, remote) : remote \in Remotes(f.config)}

----------------------------------------------------------------------------
(* Retry engine: utils/retryUtils *)

DEFAULT_RETRY_OPTIONS ==
    [maxRetries |-> DefaultMaxRetries, baseDelay |-> DefaultBaseDelay, exponential |-> TRUE,
     maxDelay |-> DefaultMaxDelay, jitter |-> DefaultJitter, timeout |-> DefaultTimeout]

\* { ...DEFAULT_RETRY_OPTIONS, ...options }
MergedOptions(o) == o @@ DEFAULT_RETRY_OPTIONS

\* a mutant of BackoffBase: the exponential flag is ignored
BackoffBaseFlat(a, o) == Get(o, "baseDelay", DefaultBaseDelay)

\* Math.min(baseDelay * Math.pow(2, attempt), maxDelay), or baseDelay
BackoffBase(a, o) ==
    LET baseDelay == Get(o, "baseDelay", DefaultBaseDelay)
        exponential == Get(o, "exponential", TRUE)
        maxDelay == Get(o, "maxDelay", DefaultMaxDelay)
    IN  IF exponential THEN Min(baseDelay * Pow2(a), maxDelay) ELSE baseDelay

\* calculateDelay(attempt, options) with Math.random() = r / RandDen
calculateDelay(a, o, r) ==
    LET jitter == Get(o, "jitter", DefaultJitter)
        d == BackoffBase(a, o)
    IN  IF jitter > 0
        THEN (d * (JitterDen * RandDen - jitter * RandDen + 2 * r * jitter))
                 \div (JitterDen * RandDen)
        ELSE d

\* the retryCondition functions a caller supplies: () => true, and the
\* documented (error) => error.name === TimeoutError (which throws on null)
ApplyRetryCondition(c, e, a) ==
    CASE c = "always" -> TRUE
      [] c = "timeoutOnly" -> e.name = "TimeoutError"
      [] OTHER -> FALSE

\* isRetryable of the catch block
ShouldRetry(o, e, a) ==
    IF "retryCondition" \in DOMAIN o
    THEN ApplyRetryCondition(o.retryCondition, e, a)
    ELSE isRetryableError(e)

\* evaluating isRetryable throws instead of answering
ShouldRetryThrows(o, e) ==
    IF "retryCondition" \in DOMAIN o
    THEN o.retryCondition = "timeoutOnly" /\ e.kind = "Null"
    ELSE isRetryableErrorThrows(e)

\* const maxRetries = mergedOptions.maxRetries || 0
MaxRetriesOf(o) == MergedOptions(o).maxRetries

TimeoutOf(o) == MergedOptions(o).timeout

\* a mutant of LoopGuard: the last iteration is lost
LoopGuardShort(a, o) == a < MaxRetriesOf(o)

\* for (let attempt = 0; attempt <= maxRetries; attempt++)
LoopGuard(a, o) == a <= MaxRetriesOf(o)

\* const hasMoreAttempts = attempt < maxRetries
HasMoreAttempts(a, o) == a < MaxRetriesOf(o)

\* a mutant of RetryDecision: retryability is not consulted
RetryDecisionAnyError(isRetryable, hasMoreAttempts) == hasMoreAttempts

\* if (isRetryable && hasMoreAttempts)
RetryDecision(isRetryable, hasMoreAttempts) == isRetryable /\ hasMoreAttempts

\* a mutant of TimerSet: no per-attempt timer is ever created
TimerSetNever(o) == FALSE

\* mergedOptions.timeout ? new Promise(... setTimeout ...) : null
TimerSet(o) == TimeoutOf(o) # 0

SignalAborted(o) == "signal" \in DOMAIN o /\ aborted

Returned(v) == Ok(v)

Thrown(e) == Fail(e)

Pending == [type |-> "pending", value |-> NoValue, error |-> NoError]

\* what the operation may do at its i-th invocation: the values it may resolve
\* with, the errors it may reject with
FnMayReturn(f, i) ==
    IF f.kind = "any" THEN {Value(i, "none")}
    ELSE IF f.kind = "failThenOk" /\ i > f.fails THEN {Value(i, "none")}
    ELSE IF f.kind = "fetch"
    THEN {Value(i, x.value.data) : x \in {y \in FetchOutcomes(fetch) : y.type = "return"}}
    ELSE {}

\* the operation may still be running when the timer of its attempt fires
FnMayHang(f) ==
    \/ f.kind \in {"any", "hang"}
    \/ f.kind = "fetch" /\ FetchAwaitsRemote(fetch.config, fetch.endpoint, fetch.options)

FnMayThrow(f, i, errors) ==
    IF f.kind = "any" THEN errors
    ELSE IF f.kind = "failThenOk" /\ i <= f.fails THEN {f.error}
    ELSE IF f.kind = "fetch"
    THEN {x.error : x \in {y \in FetchOutcomes(fetch) : y.type = "throw"}}
    ELSE {}

\* the errors an arbitrary operation rejects with
OpErrors ==
    { InvalidConfigError(FALSE),
      AuthenticationError(401, FALSE), AuthenticationError(503, FALSE),
      NotFoundError(0, FALSE), NotFoundError(500, FALSE),
      NetworkError(0, FALSE), NetworkError(503, FALSE),
      TimeoutError(FALSE),
      RawError("Error", "", 0, 0, FALSE), RawError("Error", "ECONNRESET", 0, 0, FALSE),
      RawError("Error", "", 0, 429, FALSE), RawError("TypeError", "", 0, 0, TRUE),
      NullReason }

ScenarioAPolicy == [maxRetries |-> 2, baseDelay |-> 100, exponential |-> TRUE]

ScenarioAOperation == [kind |-> "failThenOk", fails |-> 2, error |-> NetworkError(503, FALSE)]

Operations == {[kind |-> "any"], [kind |-> "hang"], ScenarioAOperation}

Field(k, S) == {NoOptions} \cup {k :> v : v \in S}

Policies ==
    { a @@ d @@ e @@ f :
        a \in Field("maxRetries", -1 .. MaxRetriesBound),
        d \in Field("timeout", {0}),
        e \in Field("retryCondition", {"always", "timeoutOnly"}),
        f \in Field("signal", {"signal"}) }
    \cup {ScenarioAPolicy}

\* the Math.random() draws followed in a withRetry call: the two ends of the grid
RetryDraws == {0, RandDen - 1}

RetryIdle ==
    /\ opts = NoOptions /\ fn = [kind |-> "none"] /\ pc = "idle" /\ attempt = 0
    /\ lastError = NoError /\ outcome = Pending /\ calls = 0 /\ sleeps = <<>>
    /\ aborted = FALSE /\ timers = {} /\ inflight = {}

RetryInit ==
    /\ opts \in Policies /\ fn \in Operations /\ pc = "start" /\ attempt = 0
    /\ lastError = NoError /\ outcome = Pending /\ calls = 0 /\ sleeps = <<>>
    /\ aborted = FALSE /\ timers = {} /\ inflight = {}

\* the head of one loop iteration: for (...; attempt <= maxRetries; ...) { setTimeout; fn() }
BeginAttempt(a, pending) ==
    /\ attempt' = a
    /\ IF LoopGuard(a, opts)
       THEN /\ timers' = IF TimerSet(opts) THEN pending \cup {a} ELSE pending
            /\ calls' = calls + 1
            /\ inflight' = inflight \cup {calls + 1}
            /\ pc' = "await"
            /\ outcome' = outcome
       ELSE /\ timers' = pending
            /\ calls' = calls
            /\ inflight' = inflight
            /\ pc' = "done"
            /\ outcome' = Thrown(lastError)
    /\ UNCHANGED <<opts, fn, lastError, sleeps, aborted, applied>>

\* the catch block, entered with error e; pending are the timers then pending
Catch(e, pending) ==
    /\ lastError' = e
    /\ timers' = pending
    /\ IF ShouldRetryThrows(opts, e)
       THEN pc' = "done" /\ outcome' = Thrown(TypeError) /\ sleeps' = sleeps
       ELSE IF SignalAborted(opts)
       THEN pc' = "done" /\ outcome' = Thrown(e) /\ sleeps' = sleeps
       ELSE IF RetryDecision(ShouldRetry(opts, e, attempt), HasMoreAttempts(attempt, opts))
       THEN /\ \E r \in RetryDraws :
                 sleeps' = Append(sleeps, calculateDelay(attempt, MergedOptions(opts), r))
            /\ pc' = "sleeping"
            /\ outcome' = outcome
       ELSE pc' = "done" /\ outcome' = Thrown(e) /\ sleeps' = sleeps
    /\ UNCHANGED <<opts, fn, attempt, calls, aborted, applied>>

Start ==
    /\ pc = "start"
    /\ BeginAttempt(0, timers)
    /\ UNCHANGED <<delay, fetch, binder, request, auth, iter, applied>>

\* fn() resolves first: clearTimeout, return result
OpReturns ==
    /\ pc = "await"
    /\ \E v \in FnMayReturn(fn, calls) : outcome' = Returned(v)
    /\ timers' = timers \ {attempt}
    /\ inflight' = inflight \ {calls}
    /\ pc' = "done"
    /\ UNCHANGED <<opts, fn, attempt, lastError, calls, sleeps, aborted, delay, fetch, binder, request, auth, iter, applied>>

\* fn() rejects first
OpThrows ==
    /\ pc = "await"
    /\ \E e \in FnMayThrow(fn, calls, OpErrors) : Catch(e, timers)
    /\ inflight' = inflight \ {calls}
    /\ UNCHANGED <<delay, fetch, binder, request, auth, iter, applied>>

\* the timer of the attempt in flight fires first: the race rejects with a
\* TimeoutError; the promise of fn() is left as it is
TimeoutFires ==
    /\ pc = "await"
    /\ attempt \in timers
    /\ FnMayHang(fn)
    /\ Catch(TimeoutError(FALSE), timers \ {attempt})
    /\ inflight' = inflight
    /\ UNCHANGED <<delay, fetch, binder, request, auth, iter, applied>>

\* await new Promise(resolve => setTimeout(resolve, delay)); continue
SleepEnds ==
    /\ pc = "sleeping"
    /\ BeginAttempt(attempt + 1, timers)
    /\ UNCHANGED <<delay, fetch, binder, request, auth, iter, applied>>

\* the caller triggers options.signal
Abort ==
    /\ "signal" \in DOMAIN opts
    /\ ~aborted
    /\ pc \in {"start", "await", "sleeping"}
    /\ aborted' = TRUE
    /\ UNCHANGED <<opts, fn, pc, attempt, lastError, outcome, calls, sleeps, timers, inflight, delay, fetch, binder, request, auth, iter, applied>>

\* a timer whose attempt is over fires: its reject() finds the race settled
StaleTimerFires ==
    /\ \E t \in timers :
         /\ ~(pc = "await" /\ t = attempt)
         /\ timers' = timers \ {t}
    /\ UNCHANGED <<opts, fn, pc, attempt, lastError, outcome, calls, sleeps, aborted, inflight, delay, fetch,
                   binder, request, auth, iter, applied>>

\* the promise of an invocation the race has given up on settles: nobody awaits it
AbandonedSettles ==
    /\ \E c \in inflight :
         /\ ~(pc = "await" /\ c = calls)
         /\ inflight' = inflight \ {c}
    /\ UNCHANGED <<opts, fn, pc, attempt, lastError, outcome, calls, sleeps, aborted, timers, delay, fetch,
                   binder, request, auth, iter, applied>>

\* no single attempt, header computation or iterator under study
PureIdle == request = <<>> /\ auth = <<>> /\ iter = <<>> /\ applied = <<>>

OthersIdle == delay = <<>> /\ fetch = <<>> /\ binder = <<>> /\ PureIdle

Init == RetryInit /\ OthersIdle

Next ==
    \/ Start
    \/ OpReturns
    \/ OpThrows
    \/ TimeoutFires
    \/ SleepEnds
    \/ Abort
    \/ StaleTimerFires
    \/ AbandonedSettles

Spec == Init /\ [][Next]_vars

\* the event loop runs every timer that is due: the per-attempt timer and the
\* backoff sleep both end
FairSpec == Spec /\ WF_vars(Start) /\ WF_vars(TimeoutFires) /\ WF_vars(SleepEnds)

----------------------------------------------------------------------------
(* fetchData: withRetry around the fetch attempt *)

NoEndpoints == [k \in {} |-> <<>>]

FetchConfigs ==
    [baseUrl : BaseUrls, timeout : {0, 5000},
     endpoints : {NoEndpoints, <<"u">> :> <<"/", "v">>}]

\* /u resolves; // is rejected by the URL parser
Endpoints == {<<"/", "u">>, <<"/", "/">>}

\* options.retryOptions as callers give it: one retry, no retry, and two retries
\* with the doubling switched off
RetryOptionsGiven ==
    {[maxRetries |-> 1], [maxRetries |-> 0], [maxRetries |-> 2, exponential |-> FALSE]}

FetchOptions ==
    { a @@ b @@ c @@ d @@ e @@ f :
        a \in Field("endpoint", Endpoints),
        b \in Field("retryOptions", RetryOptionsGiven),
        c \in Field("throwHttpErrors", {FALSE}),
        d \in Field("responseFormat", {"batch", "stream"}),
        e \in Field("fullResponse", {TRUE}),
        f \in Field("invalidHeader", {TRUE}) }

FetchInit ==
    /\ fetch \in [config : FetchConfigs, endpoint : Endpoints, options : FetchOptions]
    /\ opts = FetchRetryOptions(fetch.config, fetch.options)
    /\ fn = [kind |-> "fetch"]
    /\ pc = "start" /\ attempt = 0
    /\ lastError = NoError /\ outcome = Pending /\ calls = 0 /\ sleeps = <<>>
    /\ aborted = FALSE /\ timers = {} /\ inflight = {}
    /\ delay = <<>> /\ binder = <<>> /\ PureIdle

NextFetch ==
    \/ Start
    \/ OpReturns
    \/ OpThrows
    \/ TimeoutFires
    \/ SleepEnds
    \/ StaleTimerFires
    \/ AbandonedSettles

SpecFetch == FetchInit /\ [][NextFetch]_vars

----------------------------------------------------------------------------
(* calculateDelay on its own *)

DelayInputs ==
    [attempt : 0 .. MaxDelayAttempt,
     options : { [baseDelay |-> b, exponential |-> x, maxDelay |-> m, jitter |-> j] :
                   b \in {1, 100}, x \in BOOLEAN, m \in {150, DefaultMaxDelay},
                   j \in 0 .. JitterDen },
     r : 0 .. RandDen - 1,
     result : {-1}]

DelayInit == delay \in DelayInputs /\ fetch = <<>> /\ binder = <<>> /\ RetryIdle /\ PureIdle

ApplyCalculateDelay ==
    /\ delay.result = -1
    /\ delay' = [delay EXCEPT !.result = calculateDelay(delay.attempt, delay.options, delay.r)]
    /\ UNCHANGED <<retryVars, fetch, binder, request, auth, iter, applied>>

SpecDelay == DelayInit /\ [][ApplyCalculateDelay]_vars

----------------------------------------------------------------------------
(* Properties of the retry engine *)

\* the N of a policy: its maximum number of retries
PolicyN == MergedOptions(opts).maxRetries

Raised == pc = "done" /\ outcome.type = "throw"

\* C1 as stated: whenever withRetry has ended with every attempt failed (it raised),
\* under a policy with N >= 0 and no per-attempt timer, the operation was invoked
\* exactly N+1 times.
C1_ExactlyNPlus1OnFailure ==
    (Raised /\ PolicyN >= 0 /\ MergedOptions(opts).timeout = 0) => calls = PolicyN + 1

\* C1 amended: under a policy with N >= 0 the operation is never invoked more than
\* N+1 times, and when withRetry raises an error that the retry predicate deems
\* retryable while the cancellation signal is not triggered, it was invoked
\* exactly N+1 times.
C1_NPlus1WhenRetryable ==
    /\ PolicyN >= 0 => calls <= PolicyN + 1
    /\ ( /\ Raised
         /\ PolicyN >= 0
         /\ ~SignalAborted(opts)
         /\ ~ShouldRetryThrows(opts, lastError)
         /\ ShouldRetry(opts, lastError, attempt) )
       => calls = PolicyN + 1

C1_Witness ==
    /\ Raised /\ PolicyN = 2 /\ calls = 3 /\ ~aborted
    /\ outcome.error = NetworkError(503, FALSE)
    /\ "retryCondition" \notin DOMAIN opts

\* C2: once the cancellation signal has been triggered during a withRetry call
\* (after the first invocation), no step of the call invokes the operation again.
C2_NoAttemptAfterAbort == [][(aborted /\ calls >= 1) => calls' = calls]_vars

\* C5: whenever the last failed attempt raised an InvalidConfig error, the call has
\* ended raising that error (no sleep follows it, no further invocation), whatever
\* retry predicate the policy carries.
C5_InvalidConfigNeverRetried ==
    lastError.kind = "InvalidConfig" => (Raised /\ outcome.error = lastError)

\* C6: under the default retry predicate, whenever the last failed attempt raised
\* an Authentication or NotFound error (of any status), the call has ended raising
\* that error without retrying it.
C6_AuthNotFoundNotRetried ==
    ("retryCondition" \notin DOMAIN opts /\ lastError.kind \in {"Authentication", "NotFound"})
       => (Raised /\ outcome.error = lastError)

\* C7: whenever the last failed attempt raised an error the retry predicate deems
\* not retryable, the call has ended raising that very error, no invocation and no
\* backoff sleep followed that attempt, and on a first attempt the operation was
\* invoked exactly once with no sleep at all.
C7_NonRetryableRaisedAtOnce ==
    ( /\ lastError.kind \notin {"None"}
      /\ ~ShouldRetryThrows(opts, lastError)
      /\ ~ShouldRetry(opts, lastError, attempt) )
    => /\ Raised
       /\ outcome.error = lastError
       /\ calls = attempt + 1
       /\ Len(sleeps) = attempt
       /\ (attempt = 0 => calls = 1 /\ sleeps = <<>>)

C7_Witness ==
    /\ Raised /\ calls = 1 /\ sleeps = <<>>
    /\ outcome.error = NotFoundError(0, FALSE)
    /\ outcome.error.status = NotFoundStatus
    /\ "retryCondition" \notin DOMAIN opts
    /\ PolicyN = 2

\* C8: under policy {maxRetries: 2, baseDelay: 100, exponential: true}, with an
\* operation failing with a 503 on its first two invocations and succeeding on the
\* third, a finished call has returned the value of the third invocation after
\* exactly two sleeps, the second at least as long as the first.
C8_ScenarioA ==
    (opts = ScenarioAPolicy /\ fn = ScenarioAOperation /\ pc = "done")
    => /\ outcome = Returned(Value(3, "none"))
       /\ calls = 3
       /\ Len(sleeps) = 2
       /\ sleeps[2] >= sleeps[1]

C8_Witness ==
    /\ opts = ScenarioAPolicy /\ fn = ScenarioAOperation /\ pc = "done"
    /\ outcome = Returned(Value(3, "none")) /\ Len(sleeps) = 2 /\ sleeps[1] > 100 /\ sleeps[2] < 200

\* C10: with a per-attempt timeout set and N >= 0 retries, a call whose operation
\* never completes eventually ends raising a Timeout error; unless the cancellation
\* signal was triggered, that is after exactly N+1 attempts and N sleeps.
C10_HangingOperationTimesOut ==
    ( /\ fn.kind = "hang"
      /\ MergedOptions(opts).timeout # 0
      /\ PolicyN >= 0
      /\ ShouldRetry(opts, TimeoutError(FALSE), 0) )
    ~> ( /\ Raised
         /\ outcome.error.kind = "Timeout"
         /\ (~aborted => calls = PolicyN + 1 /\ Len(sleeps) = PolicyN) )

C10_Witness ==
    /\ fn.kind = "hang" /\ Raised /\ outcome.error = TimeoutError(FALSE)
    /\ PolicyN = 2 /\ calls = 3 /\ Len(sleeps) = 2 /\ ~aborted

----------------------------------------------------------------------------
(* Properties of calculateDelay *)

\* C9: with exponential backoff and a jitter factor j in [0,1], a computed delay
\* never exceeds maxDelay and, when base*2^a does not exceed maxDelay, lies within
\* [base*2^a*(1-j), base*2^a*(1+j)] (to the whole millisecond).
C9_DelayWithinJitterBandAndCapped ==
    LET o == delay.options
        full == o.baseDelay * Pow2(delay.attempt)
    IN  (delay.result # -1 /\ o.exponential)
        => /\ delay.result <= o.maxDelay
           /\ full <= o.maxDelay
                => /\ (delay.result + 1) * JitterDen > full * (JitterDen - o.jitter)
                   /\ delay.result * JitterDen <= full * (JitterDen + o.jitter)

----------------------------------------------------------------------------
(* Properties of fetchData *)

\* C3: every error a fetchData call raises to its caller is of one of the taxonomy
\* kinds Network, Authentication, NotFound, Timeout, InvalidConfig.
C3_OnlyTaxonomyErrorsEscape ==
    (fn.kind = "fetch" /\ Raised) => outcome.error.kind \in TaxonomyKinds

----------------------------------------------------------------------------
(* DataBinder.fetchFromDatasource: one call through the linker *)

\* the ids under which the linker holds a datasource
RegisteredDatasources == {<<"d">>}

\* the datasourceId arguments: held, not held, held once sanitized
DatasourceIds == {<<"d">>, <<"x">>, <<"d", ";">>}

\* datasource.methods: the names the held datasource has a method for
DatasourceMethods == {"fetchData"}

\* a method name: "" is none given (overrideOptions?.methodName falsy,
\* methodConfig absent), "nope" names no method of the datasource
MethodNames == {"", "fetchData", "nope"}

\* Linker.getDatasource(id)
getDatasource(id) == id \in RegisteredDatasources

\* Linker.getMethod(datasourceId, methodName): the method, or a plain Error
getMethod(id, methodName) ==
    IF ~getDatasource(id) THEN Fail(RawError("Error", "", 0, 0, FALSE))
    ELSE IF methodName \notin DatasourceMethods THEN Fail(RawError("Error", "", 0, 0, FALSE))
    ELSE Ok(Value(0, methodName))

\* Linker.getMethodForDatasource(datasourceId): the configured method, undefined
\* (NoValue) when none is configured, or a plain Error
getMethodForDatasource(id, configured) ==
    IF ~getDatasource(id) THEN Fail(RawError("Error", "", 0, 0, FALSE))
    ELSE IF configured = "" THEN Ok(NoValue)
    ELSE IF configured \notin DatasourceMethods THEN Fail(RawError("Error", "", 0, 0, FALSE))
    ELSE Ok(Value(0, configured))

\* validateInput(data, schema): a ZodError becomes an InvalidConfigError
validateInput(baseOk) == IF baseOk THEN NoError ELSE InvalidConfigError(FALSE)

\* the try block of fetchFromDatasource up to the await of the method: the error
\* thrown before the method is invoked, NoError when the method is reached
BinderPrepareError(in) ==
    LET id == sanitizeString(in.datasourceId)
        resolved == IF in.methodName # "" THEN getMethod(id, in.methodName)
                    ELSE getMethodForDatasource(id, in.configured)
    IN  IF ~getDatasource(id) THEN RawError("Error", "", 0, 0, FALSE)
        ELSE IF resolved.type = "throw" THEN resolved.error
        ELSE IF resolved.value = NoValue THEN RawError("Error", "", 0, 0, FALSE)
        ELSE IF ~in.schemaOk THEN RawError("Error", "", 0, 0, FALSE)
        ELSE validateInput(in.baseOk)

\* the catch block of fetchFromDatasource: a new Error built from the message
BinderCatch(error) == RawError("Error", "", 0, 0, FALSE)

\* what the datasource method does when invoked
MethodBehaviours == {Ok(Value(1, "body"))} \cup {Fail(e) : e \in OpErrors}

BinderInputs ==
    [datasourceId : DatasourceIds, methodName : MethodNames, configured : MethodNames,
     schemaOk : BOOLEAN, baseOk : BOOLEAN, method : MethodBehaviours]

BinderCalls ==
    { [input |-> in, pc |-> "called", caught |-> NoError, outcome |-> Pending,
       invoked |-> 0, recorded |-> "none"] : in \in BinderInputs }

BinderInit == binder \in BinderCalls /\ delay = <<>> /\ fetch = <<>> /\ RetryIdle /\ PureIdle

\* from the call to the await of the method, or to the catch and finally blocks
BinderPrepare ==
    /\ binder.pc = "called"
    /\ LET e == BinderPrepareError(binder.input)
       IN  binder' = IF e = NoError
                     THEN [binder EXCEPT !.pc = "invoking", !.invoked = 1]
                     ELSE [binder EXCEPT !.pc = "done", !.caught = e,
                                         !.outcome = Thrown(BinderCatch(e)),
                                         !.recorded = "failure"]
    /\ UNCHANGED <<retryVars, delay, fetch, request, auth, iter, applied>>

\* the method resolves: success = true, return, finally
BinderMethodReturns ==
    /\ binder.pc = "invoking"
    /\ binder.input.method.type = "return"
    /\ binder' = [binder EXCEPT !.pc = "done",
                                !.outcome = Returned(binder.input.method.value),
                                !.recorded = "success"]
    /\ UNCHANGED <<retryVars, delay, fetch, request, auth, iter, applied>>

\* the method rejects: catch, finally
BinderMethodThrows ==
    /\ binder.pc = "invoking"
    /\ binder.input.method.type = "throw"
    /\ binder' = [binder EXCEPT !.pc = "done",
                                !.caught = binder.input.method.error,
                                !.outcome = Thrown(BinderCatch(binder.input.method.error)),
                                !.recorded = "failure"]
    /\ UNCHANGED <<retryVars, delay, fetch, request, auth, iter, applied>>

NextBinder == BinderPrepare \/ BinderMethodReturns \/ BinderMethodThrows

SpecBinder == BinderInit /\ [][NextBinder]_vars

\* C4: an error a datasource method raises with one of the kinds Authentication,
\* NotFound, Timeout or Network is delivered to the caller of
\* fetchFromDatasource with that same kind.
C4_ErrorKindPreserved ==
    (/\ binder.pc = "done"
     /\ binder.invoked = 1
     /\ binder.caught.kind \in {"Authentication", "NotFound", "Timeout", "Network"})
    => binder.outcome.error.kind = binder.caught.kind

----------------------------------------------------------------------------
(* Properties of the retry engine: what a finished call delivers *)

\* C11: a finished withRetry call that returned did so with the value of its last
\* invocation (the attempt that succeeded), and a finished call that raised did so
\* with the error of the last attempt made (lastError), never with another one.
C11_ValueOfAttemptOrLastError ==
    pc = "done" =>
       /\ outcome.type = "return" => (calls >= 1 /\ outcome.value.call = calls)
       /\ outcome.type = "throw" => outcome.error = lastError

----------------------------------------------------------------------------
(* Properties of fetchData: the retry policy of a call *)

\* C12: a fetchData call given options.retryOptions with maxRetries = N >= 0 that
\* ended raising a retryable error made exactly N+1 attempts, and given
\* exponential = false its second backoff delay is not doubled: it stays within
\* the jitter band of the base delay.
C12_FetchHonoursRetryOptions ==
    (fn.kind = "fetch" /\ "retryOptions" \in DOMAIN fetch.options) =>
       LET ro == fetch.options.retryOptions
           baseDelay == MergedOptions(opts).baseDelay
           jitter == MergedOptions(opts).jitter
       IN  /\ ( /\ Raised
                /\ ~ShouldRetryThrows(opts, lastError)
                /\ ShouldRetry(opts, lastError, attempt) )
              => calls = ro.maxRetries + 1
           /\ ("exponential" \in DOMAIN ro /\ ~ro.exponential /\ Len(sleeps) >= 2)
              => sleeps[2] * JitterDen <= baseDelay * (JitterDen + jitter)

----------------------------------------------------------------------------
(* fetchData under a fair event loop: timers that are due do fire; whether and
   when the remote end answers is left open *)

FairSpecFetch == SpecFetch /\ WF_vars(Start) /\ WF_vars(TimeoutFires) /\ WF_vars(SleepEnds)

\* C13: when the datasource configuration sets no timeout, an attempt of fetchData
\* that is waiting for the remote end is still bounded by the default per-attempt
\* timeout: whatever the remote does (also if it never responds) the attempt
\* eventually ends, so the call does not wait forever.
C13_DefaultTimeoutBoundsAttempt ==
    ( /\ fn.kind = "fetch"
      /\ fetch.config.timeout = 0
      /\ pc = "await"
      /\ FetchAwaitsRemote(fetch.config, fetch.endpoint, fetch.options) )
    ~> (pc # "await")

----------------------------------------------------------------------------
(* One run of the operation of fetchData: the request URL, the error raised and
   the context that error carries *)

\* url.searchParams.append(...) of buildUrl: the names of the parameters added for
\* pagination and for query.filters
buildUrlSearch(options) ==
    (IF Get(options, "pagination", FALSE) THEN <<"page">> ELSE <<>>)
    \o Get(options, "filters", <<>>)

\* no URL (undefined)
NoUrl == [origin |-> "", pathname |-> <<>>, search |-> <<>>]

\* url.toString() of buildUrl, read back as new URL(url) reads it: origin,
\* pathname and the names of the search parameters
RequestUrl(config, endpoint, options) ==
    LET u == buildUrl(config, endpoint)
    IN  IF u.type = "throw" THEN NoUrl
        ELSE [origin |-> u.value.base, pathname |-> u.value.path,
              search |-> buildUrlSearch(options)]

\* new URL(url).origin + new URL(url).pathname
OriginAndPath(url) == [url EXCEPT !.search = <<>>]

\* the context an error carries: the url entry and the timeoutMs entry
Context(url, timeoutMs) == [url |-> url, timeoutMs |-> timeoutMs]

NoContext == Context(NoUrl, 0)

\* AuthenticationError: { ...context, authType }
AuthenticationContext(context) == context

\* NotFoundError: { ...context, resourceType, resourceId }
NotFoundContext(context) == context

\* NetworkError: { ...context, url: url ? origin + pathname : undefined, method }
NetworkContext(url, context) ==
    [context EXCEPT !.url = IF url = NoUrl THEN NoUrl ELSE OriginAndPath(url)]

\* TimeoutError: NetworkError with { ...context, timeoutMs }
TimeoutContext(url, timeoutMs) == NetworkContext(url, Context(NoUrl, timeoutMs))

\* the context of the error built for a response that is not ok
HttpErrorContext(status, url) ==
    IF status = 401 THEN AuthenticationContext(Context(url, 0))
    ELSE IF status = 403 THEN AuthenticationContext(Context(url, 0))
    ELSE IF status = 404 THEN NotFoundContext(Context(url, 0))
    ELSE NetworkContext(url, NoContext)

\* the context of the error that leaves one run of the operation
AttemptContext(config, endpoint, options, remote) ==
    LET finalEndpoint == IF Get(options, "endpoint", <<>>) # <<>>
                         THEN options.endpoint ELSE endpoint
        t == FetchTry(config, endpoint, options, remote)
        url == RequestUrl(config, finalEndpoint, options)
        catchUrl == RequestUrl(config, endpoint, options)
    IN  IF t.type = "return" THEN NoContext
        ELSE IF t.error.kind \in TaxonomyKinds
        THEN IF t.error.kind = "InvalidConfig" THEN NoContext
             ELSE HttpErrorContext(remote.status, url)
        ELSE IF catchUrl = NoUrl THEN NoContext
        ELSE IF t.error.name = "AbortError" THEN TimeoutContext(catchUrl, config.timeout)
        ELSE NetworkContext(catchUrl, NoContext)

\* the statuses a response is probed with
AttemptStatuses == {200, 204, 302, 400, 401, 403, 404, 429, 500, 503}

AttemptRemotes(config) ==
    Remotes(config) \cup [type : {"response"}, status : AttemptStatuses, body : {"object"}]

AttemptOptions ==
    { a @@ c @@ d @@ e @@ f @@ g @@ h :
        a \in Field("endpoint", {<<"/", "u">>}),
        c \in Field("throwHttpErrors", {FALSE}),
        d \in Field("responseFormat", {"batch", "stream"}),
        e \in Field("fullResponse", {TRUE}),
        f \in {NoOptions},
        g \in Field("pagination", {TRUE}),
        h \in Field("filters", {<<"apiKey">>}) }

AttemptInputs ==
    { [config |-> c, endpoint |-> e, options |-> o, remote |-> r,
       pc |-> "ready", result |-> Pending, context |-> NoContext] :
        c \in FetchConfigs, e \in Endpoints, o \in AttemptOptions,
        r \in UNION {AttemptRemotes(x) : x \in FetchConfigs} }

AttemptInit ==
    /\ request \in {q \in AttemptInputs : q.remote \in AttemptRemotes(q.config)}
    /\ auth = <<>> /\ iter = <<>> /\ applied = <<>>
    /\ delay = <<>> /\ fetch = <<>> /\ binder = <<>> /\ RetryIdle

\* the operation runs once: try block, catch block
RunAttempt ==
    /\ request.pc = "ready"
    /\ request' = [request EXCEPT
         !.pc = "settled",
         !.result = FetchAttempt(request.config, request.endpoint, request.options,
                                 request.remote),
         !.context = AttemptContext(request.config, request.endpoint, request.options,
                                    request.remote)]
    /\ UNCHANGED <<retryVars, delay, fetch, binder, auth, iter, applied>>

SpecAttempt == AttemptInit /\ [][RunAttempt]_vars


----------------------------------------------------------------------------
(* Properties of one run of the operation of fetchData *)

\* the run got its response from the remote end
Answered ==
    /\ request.pc = "settled"
    /\ request.remote.type = "response"
    /\ FetchAwaitsRemote(request.config, request.endpoint, request.options)

StatusOk(status) == status >= 200 /\ status <= 299

\* C14: with error-throwing enabled a response with a non-2xx status makes the run
\* raise the taxonomy error of that status (401 and 403 Authentication, 404
\* NotFound, every other one, >= 500 included, Network), carrying the status;
\* with throwHttpErrors = false the status raises nothing: the run ends as it
\* does for a 200 response with the same body.
C14_StatusMapping ==
    Answered =>
       LET status == request.remote.status
           throwing == Get(request.options, "throwHttpErrors", TRUE)
           expected == IF status \in {401, 403} THEN "Authentication"
                       ELSE IF status = 404 THEN "NotFound"
                       ELSE "Network"
       IN  /\ (~StatusOk(status) /\ throwing)
              => /\ request.result.type = "throw"
                 /\ request.result.error.kind = expected
                 /\ request.result.error.status = status
           /\ (~StatusOk(status) /\ ~throwing)
              => request.result = FetchAttempt(request.config, request.endpoint,
                                               request.options,
                                               [request.remote EXCEPT !.status = 200])

C14_Witness ==
    /\ Answered
    /\ request.remote.status = 403
    /\ "throwHttpErrors" \notin DOMAIN request.options
    /\ request.result.type = "throw"
    /\ request.result.error = AuthenticationError(403, FALSE)

\* C15: the error a run raises for a non-2xx status carries the request URL as
\* origin and path only: the url of its context has no query string.
C15_NoQueryInErrorContext ==
    ( /\ Answered
      /\ ~StatusOk(request.remote.status)
      /\ request.result.type = "throw"
      /\ request.result.error.status = request.remote.status )
    => request.context.url.search = <<>>

----------------------------------------------------------------------------
(* Request headers: applyAuthentication and the cookie layers of fetchData.
   A field that is absent (undefined) is the empty string; an absent auth or
   override object has every field absent and no cookies. *)

NoCookies == [n \in {} |-> ""]

Auth(type, token, username, password, headerName, headerValue, cookies) ==
    [type |-> type, token |-> token, username |-> username, password |-> password,
     headerName |-> headerName, headerValue |-> headerValue, cookies |-> cookies]

NoAuth == Auth("", "", "", "", "", "", NoCookies)

\* headers.set(name, value)
HeadersSet(headers, name, value) == (name :> value) @@ headers

\* a mutant of MergeField: the override never wins
MergeFieldBase(overrideValue, baseValue) == baseValue

\* override?.field || auth.field
MergeField(overrideValue, baseValue) ==
    IF overrideValue # "" THEN overrideValue ELSE baseValue

\* the Authorization values: Bearer <token>, Basic btoa(<username>:<password>)
Bearer(token) == <<"Bearer", token>>

Basic(username, password) == <<"Basic", username, password>>

applyAuthentication(headers, base, override) ==
    IF base = NoAuth /\ override = NoAuth THEN headers
    ELSE IF override.type # "" /\ override.type # base.type
    THEN CASE override.type = "bearer" /\ override.token # ""
                -> HeadersSet(headers, "Authorization", Bearer(override.token))
           [] override.type = "basic" /\ override.username # "" /\ override.password # ""
                -> HeadersSet(headers, "Authorization",
                              Basic(override.username, override.password))
           [] override.type = "custom" /\ base.headerName # "" /\ override.headerValue # ""
                -> HeadersSet(headers, base.headerName, <<override.headerValue>>)
           [] OTHER -> headers
    ELSE LET token == MergeField(override.token, base.token)
             username == MergeField(override.username, base.username)
             password == MergeField(override.password, base.password)
             headerValue == MergeField(override.headerValue, base.headerValue)
         IN  CASE base.type = "bearer" /\ token # ""
                    -> HeadersSet(headers, "Authorization", Bearer(token))
               [] base.type = "basic" /\ username # "" /\ password # ""
                    -> HeadersSet(headers, "Authorization", Basic(username, password))
               [] base.type = "custom" /\ base.headerName # "" /\ headerValue # ""
                    -> HeadersSet(headers, base.headerName, <<headerValue>>)
               [] OTHER -> headers

\* encodeURIComponent on the cookie values of the model
encodeURIComponent(value) == IF value = "b 2" THEN "b%202" ELSE value

EncodeAll(cookies) == [n \in DOMAIN cookies |-> encodeURIComponent(cookies[n])]

\* cookieMap of fetchData: base cookies, then the override's, then options.cookies
cookieMap(base, override, explicit) ==
    EncodeAll(explicit)
    @@ (IF override.type = "cookie" THEN EncodeAll(override.cookies) ELSE NoCookies)
    @@ (IF base.type = "cookie" THEN EncodeAll(base.cookies) ELSE NoCookies)

\* the headers of the request: new Headers, applyAuthentication, Cookie
RequestHeaders(base, override, explicit) ==
    LET headers == applyAuthentication("Content-Type" :> <<"application/json">>, base, override)
        cookies == cookieMap(base, override, explicit)
    IN  IF DOMAIN cookies # {} THEN HeadersSet(headers, "Cookie", cookies) ELSE headers

BaseAuths ==
    {NoAuth}
    \cup {Auth("bearer", t, "", "", "", "", NoCookies) : t \in {"", "A"}}
    \cup {Auth("basic", "", u, p, "", "", NoCookies) : u \in {"", "ua"}, p \in {"", "pa"}}
    \cup {Auth("custom", "", "", "", n, v, NoCookies) : n \in {"", "X-API-Key"}, v \in {"", "va"}}
    \cup {Auth("cookie", "", "", "", "", "", c) : c \in {NoCookies, "sid" :> "a1"}}

Overrides ==
    {Auth(ty, t, u, p, "", v, c) :
        ty \in {"", "bearer", "basic", "custom", "cookie"},
        t \in {"", "B"}, u \in {"", "u"}, p \in {"", "p"}, v \in {"", "vb"},
        c \in {NoCookies, "sid" :> "b1", ("sid" :> "b1") @@ ("lang" :> "b 2")}}

ExplicitCookies == {NoCookies, "sid" :> "c1", "theme" :> "c3"}

AuthInit ==
    /\ auth \in [base : BaseAuths, override : Overrides, cookies : ExplicitCookies,
                 pc : {"ready"}, headers : {<<>>}]
    /\ request = <<>> /\ iter = <<>> /\ applied = <<>>
    /\ delay = <<>> /\ fetch = <<>> /\ binder = <<>> /\ RetryIdle

BuildHeaders ==
    /\ auth.pc = "ready"
    /\ auth' = [auth EXCEPT !.pc = "built",
                            !.headers = RequestHeaders(auth.base, auth.override, auth.cookies)]
    /\ UNCHANGED <<retryVars, delay, fetch, binder, request, iter, applied>>

SpecAuth == AuthInit /\ [][BuildHeaders]_vars


----------------------------------------------------------------------------
(* Properties of the request headers *)

\* override ?.field || base.field, as the documentation of the merge words it
Supplied(overrideValue, baseValue) == IF overrideValue = "" THEN baseValue ELSE overrideValue

\* C17: when the override names a kind other than the base auth's, no credential
\* of the base auth is sent: the Authorization header holds no base token, user
\* name or password, the custom header does not hold the base headerValue, and
\* the Cookie header holds no cookie value of the base auth; base bearer with
\* override basic u/p yields Authorization: Basic u:p.
C17_OverrideOfOtherKindReplaces ==
    (auth.pc = "built" /\ auth.override.type # "" /\ auth.override.type # auth.base.type)
    => LET h == auth.headers
           b == auth.base
       IN  /\ "Authorization" \in DOMAIN h
                => \A i \in 2 .. Len(h["Authorization"]) :
                      h["Authorization"][i] \notin ({b.token, b.username, b.password} \ {""})
           /\ (b.headerName # "" /\ b.headerName \in DOMAIN h)
                => h[b.headerName] # <<b.headerValue>>
           /\ "Cookie" \in DOMAIN h
                => \A n \in DOMAIN h["Cookie"] \cap DOMAIN b.cookies :
                      h["Cookie"][n] # encodeURIComponent(b.cookies[n])
           /\ (b.type = "bearer" /\ auth.override.type = "basic"
               /\ auth.override.username = "u" /\ auth.override.password = "p")
                => ("Authorization" \in DOMAIN h /\ h["Authorization"] = Basic("u", "p"))

\* C18: when the override names no kind or the kind of the base auth, the header
\* is built from the fields merged one by one, the override's value where it
\* supplies one and the base value otherwise; base bearer A with override bearer
\* B yields Authorization: Bearer B.
C18_SameKindMergesFieldByField ==
    ( /\ auth.pc = "built"
      /\ auth.base.type \in {"bearer", "basic", "custom"}
      /\ auth.override.type \in {"", auth.base.type} )
    => LET h == auth.headers
           b == auth.base
           o == auth.override
           token == Supplied(o.token, b.token)
           username == Supplied(o.username, b.username)
           password == Supplied(o.password, b.password)
           headerValue == Supplied(o.headerValue, b.headerValue)
       IN  /\ (b.type = "bearer" /\ token # "")
                => ("Authorization" \in DOMAIN h /\ h["Authorization"] = <<"Bearer", token>>)
           /\ (b.type = "basic" /\ username # "" /\ password # "")
                => ( /\ "Authorization" \in DOMAIN h
                     /\ h["Authorization"] = <<"Basic", username, password>> )
           /\ (b.type = "custom" /\ b.headerName # "" /\ headerValue # "")
                => (b.headerName \in DOMAIN h /\ h[b.headerName] = <<headerValue>>)
           /\ (b.type = "bearer" /\ token = "") => "Authorization" \notin DOMAIN h
           /\ (b.type = "basic" /\ (username = "" \/ password = ""))
                => "Authorization" \notin DOMAIN h

C18_Witness ==
    /\ auth.pc = "built"
    /\ auth.base = Auth("bearer", "A", "", "", "", "", NoCookies)
    /\ auth.override = Auth("bearer", "B", "", "", "", "", NoCookies)
    /\ auth.headers["Authorization"] = <<"Bearer", "B">>

\* C19: (the override naming no kind or the kind cookie) the Cookie header holds
\* exactly the cookie names of the base auth, of the override and of the explicit
\* cookies, each once, with the (URI-encoded) value of the last layer defining it,
\* explicit over override over base; with no cookie in any layer there is no
\* Cookie header.
C19_CookieLayersUnion ==
    (auth.pc = "built" /\ auth.override.type \in {"", "cookie"})
    => LET h == auth.headers
           names == DOMAIN auth.base.cookies \cup DOMAIN auth.override.cookies
                    \cup DOMAIN auth.cookies
           last(n) == IF n \in DOMAIN auth.cookies THEN auth.cookies[n]
                      ELSE IF n \in DOMAIN auth.override.cookies THEN auth.override.cookies[n]
                      ELSE auth.base.cookies[n]
       IN  IF names = {} THEN "Cookie" \notin DOMAIN h
           ELSE /\ "Cookie" \in DOMAIN h
                /\ DOMAIN h["Cookie"] = names
                /\ \A n \in names : h["Cookie"][n] = encodeURIComponent(last(n))


----------------------------------------------------------------------------
(* Property mapping: DataBinder.applyMapping *)

\* the number of own properties of an item
MaxProps == 2

\* property names; "toString" is one that every object inherits from Object.prototype
PropertyKeys == {"title", "name", "toString"}

\* an item of a result: an object, its own enumerable properties in for-in order
\* (insertion order), or a value that is no object (null, a number, a string)
Obj(props) == [type |-> "object", props |-> props, value |-> 0]

Scalar(v) == [type |-> "scalar", props |-> <<>>, value |-> v]

\* the items applyMapping is applied to
MappingItems ==
    {Scalar(v) : v \in {"null", "zero", "seven", "text"}}
        \cup {Obj(props) : props \in
                {p \in UNION {[1 .. len -> [key : PropertyKeys, value : 1 .. 2]] :
                                len \in 0 .. MaxProps} :
                    \A i, j \in DOMAIN p : p[i].key = p[j].key => i = j}}

\* a PropertyMapping of the linker configuration, or none configured
Mapping(renames) == [configured |-> TRUE, renames |-> renames]

NoMapping == [configured |-> FALSE, renames |-> <<>>]

Mappings ==
    {Mapping(<<>>), Mapping("title" :> "name"), Mapping("title" :> "label"),
     Mapping("title" :> "label" @@ "name" :> "title")}

\* mapping[key] || key: the own property of the mapping, else the property every
\* object inherits under that name (a function, used as a key through its source
\* text), else the key itself
NewKey(renames, key) ==
    IF key \in DOMAIN renames /\ renames[key] # "" THEN renames[key]
    ELSE IF key = "toString" THEN "function toString() { [native code] }"
    ELSE key

\* remapped[newKey] = value: a new property is added last, an existing one keeps
\* its place and takes the value
SetProperty(props, newKey, value) ==
    IF \E i \in DOMAIN props : props[i].key = newKey
    THEN [i \in DOMAIN props |->
             IF props[i].key = newKey THEN [key |-> newKey, value |-> value] ELSE props[i]]
    ELSE Append(props, [key |-> newKey, value |-> value])

\* the for-in loop of applyMapping over the properties still to visit
RECURSIVE Remap(_, _, _)
Remap(remapped, rest, renames) ==
    IF rest = <<>> THEN remapped
    ELSE Remap(SetProperty(remapped, NewKey(renames, Head(rest).key), Head(rest).value),
               Tail(rest), renames)

applyMapping(data, mapping) ==
    IF data.type # "object" THEN data
    ELSE Obj(Remap(<<>>, data.props, mapping.renames))

MappingInit ==
    /\ applied \in [op : {"applyMapping"}, data : MappingItems, mapping : Mappings,
                    pc : {"called"}, result : {Scalar("null")}]
    /\ request = <<>> /\ auth = <<>> /\ iter = <<>>
    /\ delay = <<>> /\ fetch = <<>> /\ binder = <<>> /\ RetryIdle

ApplyMapping ==
    /\ applied.pc = "called"
    /\ applied' = [applied EXCEPT !.pc = "returned",
                                  !.result = applyMapping(applied.data, applied.mapping)]
    /\ UNCHANGED <<retryVars, delay, fetch, binder, request, auth, iter>>

SpecMapping == MappingInit /\ [][ApplyMapping]_vars

\* the value the object holds under a key, 0 when it has no such property
ValueAt(obj, key) ==
    IF \E i \in DOMAIN obj.props : obj.props[i].key = key
    THEN obj.props[CHOOSE i \in DOMAIN obj.props : obj.props[i].key = key].value
    ELSE 0

\* C26: applyMapping of an object yields an object in which every property whose
\* key is in the mapping appears under its mapped key with its original value and
\* every other property under its own key with its original value, so that no
\* property value is dropped or overwritten; an item that is no object is
\* returned untouched.
C26_MappingRenamesAndKeepsTheRest ==
    applied.pc = "returned" =>
        IF applied.data.type # "object" THEN applied.result = applied.data
        ELSE /\ applied.result.type = "object"
             /\ \A i \in DOMAIN applied.data.props :
                   LET p == applied.data.props[i]
                       renames == applied.mapping.renames
                   IN  ValueAt(applied.result,
                               IF p.key \in DOMAIN renames THEN renames[p.key] ELSE p.key)
                         = p.value
             /\ Len(applied.result.props) = Len(applied.data.props)

--------------------------------------------------------------------------------
(* DataBinder.fetchAll: createResultIterator, whose consumer calls next() until
   the generator completes or throws, and the loop of the other formats *)

\* a mutant of CeilDiv: the division is rounded down
FloorDiv(a, b) == a \div b

\* Math.ceil(a / b)
CeilDiv(a, b) == (a + b - 1) \div b

\* the batches the generator will yield before it leaves the batch loop
MaxYields == MaxIds * MaxItems + 2

\* Infinity, in the comparisons of the batch loop: above every batchIndex
Infinity == MaxYields + 1

\* totalBatches = Math.ceil(totalItems / batchSize); a batchSize of 0 gives Infinity,
\* or NaN for no items, which no batchIndex is below (as none is below 0)
TotalBatches(totalItems, batchSize) ==
    IF batchSize # 0 THEN CeilDiv(totalItems, batchSize)
    ELSE IF totalItems = 0 THEN 0 ELSE Infinity

\* a requested datasource id: the id, the methodName of its methodConfig in the
\* linker ("" when it has none), what the method does when called (kind, n) and
\* the propertyMapping configured for it.  Kinds: the method throws; it returns an
\* object that is no list and has no data list ("single"); an object with a data
\* list of n items ("data"); a bare list of n items ("list"); a list of one item
\* whose properties cannot be read, so that mapping it throws ("poison")
Datasource(id, configured, kind, n, mapping) ==
    [id |-> id, configured |-> configured, kind |-> kind, n |-> n, mapping |-> mapping]

IterDatasources ==
    {Datasource(<<"x">>, "fetchData", "throws", 0, NoMapping),
     Datasource(<<"d">>, "", "throws", 0, NoMapping),
     Datasource(<<"d">>, "nope", "throws", 0, NoMapping),
     Datasource(<<"d">>, "fetchData", "throws", 0, NoMapping),
     Datasource(<<"d">>, "fetchData", "single", 1, NoMapping),
     Datasource(<<"d">>, "fetchData", "poison", 1, Mapping("title" :> "name"))}
        \cup {Datasource(<<"d">>, "fetchData", "data", n, m) :
                n \in 0 .. MaxItems, m \in {NoMapping, Mapping("title" :> "name")}}
        \cup {Datasource(<<"d">>, "fetchData", "list", n, NoMapping) : n \in 0 .. MaxItems}

\* response.data || response, wrapped in a list when it is not one: item i is
\* { title: i }
RawData(dsrc) == [i \in 1 .. dsrc.n |-> Obj(<<[key |-> "title", value |-> i]>>)]

\* the try block up to the split into batches: await method(options), the list of
\* the response, the mapping of its items
AllData(dsrc) ==
    IF dsrc.kind = "throws" THEN Fail(RawError("Error", "", 0, 0, FALSE))
    ELSE IF ~dsrc.mapping.configured THEN Ok(RawData(dsrc))
    ELSE IF dsrc.kind = "poison" THEN Fail(TypeError)
    ELSE Ok([i \in 1 .. dsrc.n |-> applyMapping(RawData(dsrc)[i], dsrc.mapping)])

\* a mutant of Slice: the first item of the range is left out
SliceShort(allData, start, end) == SubSeq(allData, start + 2, end)

\* allData.slice(start, end)
Slice(allData, start, end) == SubSeq(allData, start + 1, end)

\* the BatchResponse yielded for batchIndex
BatchResponse(allData, batchSize, batchIndex) ==
    LET totalItems == Len(allData)
        totalBatches == TotalBatches(totalItems, batchSize)
        start == batchIndex * batchSize
        end == Min(start + batchSize, totalItems)
    IN  [data |-> Slice(allData, start, end),
         currentPage |-> batchIndex + 1,
         totalPages |-> totalBatches,
         hasNextPage |-> batchIndex < totalBatches - 1,
         totalItems |-> totalItems,
         batchIndex |-> batchIndex,
         batchSize |-> batchSize,
         error |-> FALSE]

\* a mutant of ErrorBatch: the batch announces a next page
ErrorBatchWithNext ==
    [data |-> <<>>, currentPage |-> 1, totalPages |-> 1, hasNextPage |-> TRUE,
     totalItems |-> 0, batchIndex |-> 0, batchSize |-> 0, error |-> TRUE]

\* the batch yielded from the catch block
ErrorBatch ==
    [data |-> <<>>, currentPage |-> 1, totalPages |-> 1, hasNextPage |-> FALSE,
     totalItems |-> 0, batchIndex |-> 0, batchSize |-> 0, error |-> TRUE]

\* a mutant of Yield: the batch is handed out before those already yielded
YieldFirst(yielded, dsIndex, batch) == <<[ds |-> dsIndex, batch |-> batch]>> \o yielded

\* yield batch: the consumer receives it after those already yielded
Yield(yielded, dsIndex, batch) == Append(yielded, [ds |-> dsIndex, batch |-> batch])

\* the generator runs from the head of the loop over datasourceIds, at position
\* dsIndex, to its next yield, its completion or its throw; every yielded batch is
\* recorded with the position of the id it was made for
RECURSIVE IterRun(_, _)
IterRun(it, dsIndex) ==
    IF dsIndex > Len(it.datasourceIds) THEN [it EXCEPT !.pc = "done"]
    ELSE LET dsrc == it.datasourceIds[dsIndex]
             methodConfig == getMethodForDatasource(dsrc.id, dsrc.configured)
             allData == AllData(dsrc)
             at == [it EXCEPT !.dsIndex = dsIndex, !.batchIndex = 0]
         IN  IF methodConfig.type = "throw" \/ methodConfig.value = NoValue
             THEN [at EXCEPT !.pc = "threw"]
             ELSE IF allData.type = "throw"
             THEN [at EXCEPT !.pc = "yieldedError",
                             !.yielded = Yield(it.yielded, dsIndex, ErrorBatch)]
             ELSE IF 0 < TotalBatches(Len(allData.value), it.batchSize)
             THEN [at EXCEPT !.pc = "yielded",
                             !.yielded = Yield(it.yielded, dsIndex,
                                               BatchResponse(allData.value, it.batchSize, 0))]
             ELSE IterRun(it, dsIndex + 1)

\* Scenario E: id x answers with 250 items, id y raises, batchSize 100
ScenarioE ==
    [datasourceIds |-> <<Datasource(<<"d">>, "fetchData", "data", 250, NoMapping),
                         Datasource(<<"d">>, "fetchData", "throws", 0, NoMapping)>>,
     batchSize |-> 100]

\* the fetchAll calls of the model in one response format
FetchAllCalls(format) ==
    { [format |-> format, datasourceIds |-> in.datasourceIds, batchSize |-> in.batchSize,
       pc |-> "created", dsIndex |-> 0, batchIndex |-> 0, yielded |-> <<>>,
       results |-> <<>>] :
        in \in {ScenarioE} \cup
               [datasourceIds : UNION {[1 .. len -> IterDatasources] : len \in 1 .. MaxIds},
                batchSize : 0 .. MaxBatchSize] }

IterInit ==
    /\ iter \in FetchAllCalls("iterator")
    /\ request = <<>> /\ auth = <<>> /\ applied = <<>>
    /\ delay = <<>> /\ fetch = <<>> /\ binder = <<>> /\ RetryIdle

\* the first next()
IterStart ==
    /\ iter.format = "iterator" /\ iter.pc = "created"
    /\ iter' = IterRun(iter, 1)
    /\ UNCHANGED <<retryVars, delay, fetch, binder, request, auth, applied>>

\* a later next(), the generator being suspended at the yield of the batch loop:
\* batchIndex++, the loop test, then the next batch or the next datasource id
IterResume ==
    /\ iter.pc = "yielded" /\ Len(iter.yielded) < MaxYields
    /\ LET allData == AllData(iter.datasourceIds[iter.dsIndex]).value
           batchIndex == iter.batchIndex + 1
       IN  iter' =
             IF batchIndex < TotalBatches(Len(allData), iter.batchSize)
             THEN [iter EXCEPT !.batchIndex = batchIndex,
                               !.yielded = Yield(iter.yielded, iter.dsIndex,
                                     BatchResponse(allData, iter.batchSize, batchIndex))]
             ELSE IterRun(iter, iter.dsIndex + 1)
    /\ UNCHANGED <<retryVars, delay, fetch, binder, request, auth, applied>>

\* a later next(), the generator being suspended at the yield of the catch block
IterResumeAfterError ==
    /\ iter.pc = "yieldedError"
    /\ iter' = IterRun(iter, iter.dsIndex + 1)
    /\ UNCHANGED <<retryVars, delay, fetch, binder, request, auth, applied>>

NextIter == IterStart \/ IterResume \/ IterResumeAfterError

SpecIter == IterInit /\ [][NextIter]_vars

\* the consumer goes on calling next() for as long as the iterator is not done
FairSpecIter == SpecIter /\ WF_vars(NextIter)

\* the batches yielded so far for the id at position d, in yield order
BatchesOf(d) ==
    LET mine(y) == y.ds = d
        ys == SelectSeq(iter.yielded, mine)
    IN  [j \in 1 .. Len(ys) |-> ys[j].batch]

\* the generator has left the id at position d behind
PastDatasource(d) ==
    \/ iter.pc = "done"
    \/ iter.pc \in {"yielded", "yieldedError", "threw"} /\ iter.dsIndex > d

\* C20: for a datasource whose method returns a list of n items, and a
\* batchSize >= 1, the batch yielded at chunk index i has currentPage = i+1,
\* totalPages = the number T of chunks (the least T with T * batchSize >= n),
\* hasNextPage exactly when i < T-1, and holds the items of its chunk: batchSize of
\* them, fewer (at least one) only in the last chunk; and once the iterator has
\* left the datasource behind it has yielded exactly T batches for it.
C20_BatchesOfAList ==
    \A d \in 1 .. Len(iter.datasourceIds) :
        (iter.datasourceIds[d].kind \in {"data", "list"} /\ iter.batchSize >= 1)
        => LET n == iter.datasourceIds[d].n
               size == iter.batchSize
               T == CHOOSE t \in 0 .. n : t * size >= n /\ (t = 0 \/ (t - 1) * size < n)
               B == BatchesOf(d)
           IN  /\ \A j \in 1 .. Len(B) :
                     /\ B[j].currentPage = j
                     /\ B[j].totalPages = T
                     /\ B[j].hasNextPage = (j - 1 < T - 1)
                     /\ ~B[j].error
                     /\ Len(B[j].data) >= 1 /\ Len(B[j].data) <= size
                     /\ (j < T => Len(B[j].data) = size)
                     /\ (j = T => (j - 1) * size + Len(B[j].data) = n)
               /\ Len(B) <= T
               /\ PastDatasource(d) => Len(B) = T

\* a list of 5 items in batches of 2, behind a datasource of another kind: three
\* batches, the last one of a single item
C20_Witness ==
    /\ iter.pc = "done" /\ iter.batchSize = 2
    /\ Len(iter.datasourceIds) = 2
    /\ iter.datasourceIds[1] = Datasource(<<"d">>, "fetchData", "throws", 0, NoMapping)
    /\ iter.datasourceIds[2] = Datasource(<<"d">>, "fetchData", "data", 5, NoMapping)
    /\ Len(BatchesOf(2)) = 3
    /\ Len(BatchesOf(2)[3].data) = 1 /\ ~BatchesOf(2)[3].hasNextPage


\* the datasource at position d answers with a list (bare or under data)
ReturnsList(d) == iter.datasourceIds[d].kind \in {"data", "list"}

\* the data of a sequence of batches, concatenated in order
RECURSIVE ConcatData(_)
ConcatData(batches) ==
    IF batches = <<>> THEN <<>> ELSE Head(batches).data \o ConcatData(Tail(batches))

\* C21: for one datasource fetch the batches partition the fetched item list: the
\* data of the batches yielded so far, concatenated in yield order, is a prefix
\* of the (mapped) item list, item k at place k; once the iterator has left the
\* datasource behind it is the whole list, and the totalItems of every batch is the
\* sum of the data lengths of all batches of that fetch.
C21_BatchesPartitionTheList ==
    \A d \in 1 .. Len(iter.datasourceIds) :
        ReturnsList(d)
        => LET dsrc == iter.datasourceIds[d]
               key == IF dsrc.mapping.configured THEN "name" ELSE "title"
               all == ConcatData(BatchesOf(d))
           IN  /\ Len(all) <= dsrc.n
               /\ \A k \in 1 .. Len(all) :
                     /\ all[k].type = "object" /\ Len(all[k].props) = 1
                     /\ ValueAt(all[k], key) = k
               /\ PastDatasource(d) =>
                     /\ Len(all) = dsrc.n
                     /\ \A j \in 1 .. Len(BatchesOf(d)) : BatchesOf(d)[j].totalItems = Len(all)

\* a mapped list of 5 items handed out in batches of 2
C21_Witness ==
    /\ iter.pc = "done" /\ iter.batchSize = 2
    /\ \E d \in 1 .. Len(iter.datasourceIds) :
          /\ iter.datasourceIds[d] =
                Datasource(<<"d">>, "fetchData", "data", 5, Mapping("title" :> "name"))
          /\ Len(BatchesOf(d)) = 3
          /\ Len(ConcatData(BatchesOf(d))) = 5

\* C22: whenever batchSize is larger than the total item count of a datasource,
\* an empty result included, the iterator has yielded exactly one batch for that
\* datasource once it has left it behind, and that batch has hasNextPage = false.
C22_OneBatchWhenBatchSizeExceedsCount ==
    \A d \in 1 .. Len(iter.datasourceIds) :
        (ReturnsList(d) /\ iter.batchSize > iter.datasourceIds[d].n /\ PastDatasource(d))
        => /\ Len(BatchesOf(d)) = 1
           /\ ~BatchesOf(d)[1].hasNextPage

\* C23: a failure on one datasource id never aborts the iterator: the generator
\* never throws, whatever fails for an id (unknown id, no configured method,
\* fetch error, mapping error).
C23_FailureNeverAborts == iter.pc # "threw"

\* fetching or mapping for the id at position d raises: the method is found and
\* throws, or the mapping of its items throws
FetchOrMappingRaises(d) ==
    LET dsrc == iter.datasourceIds[d]
    IN  /\ dsrc.id = <<"d">> /\ dsrc.configured = "fetchData"
        /\ \/ dsrc.kind = "throws"
           \/ dsrc.kind = "poison" /\ dsrc.mapping.configured

\* C24: when fetching or mapping for a datasource id raises, every batch yielded
\* for that id is an error batch with an empty data list and hasNextPage = false,
\* there is at most one, and exactly one once the iterator has left the id behind.
C24_OneErrorBatchPerFailedId ==
    \A d \in 1 .. Len(iter.datasourceIds) :
        FetchOrMappingRaises(d)
        => /\ Len(BatchesOf(d)) <= 1
           /\ \A j \in 1 .. Len(BatchesOf(d)) :
                 /\ BatchesOf(d)[j].error
                 /\ BatchesOf(d)[j].data = <<>>
                 /\ ~BatchesOf(d)[j].hasNextPage
           /\ PastDatasource(d) => Len(BatchesOf(d)) = 1

\* an id whose mapping raises, then an id whose fetch raises: one error batch each
C24_Witness ==
    /\ iter.pc = "done" /\ Len(iter.datasourceIds) = 2
    /\ iter.datasourceIds[1].kind = "poison" /\ iter.datasourceIds[2].kind = "throws"
    /\ FetchOrMappingRaises(1) /\ FetchOrMappingRaises(2)
    /\ Len(iter.yielded) = 2 /\ iter.yielded[1].batch.error /\ iter.yielded[2].batch.error

\* the data lengths, page numbers and hasNextPage flags of the batches yielded
Shape(yielded) ==
    [j \in 1 .. Len(yielded) |->
        <<yielded[j].ds, Len(yielded[j].batch.data), yielded[j].batch.currentPage,
          yielded[j].batch.hasNextPage, yielded[j].batch.error>>]

\* C25: the batches are yielded grouped by datasource id in the order of the id
\* list: every batch of an earlier id precedes every batch of a later id; and in
\* Scenario E (x: 250 items, batchSize 100; y raises) the finished iteration has
\* yielded 100, 100 and 50 items for x with currentPage 1, 2, 3 and hasNextPage
\* true, true, false, then exactly one error batch with empty data for y.
C25_GroupedInIdOrder ==
    /\ \A i, j \in 1 .. Len(iter.yielded) : i < j => iter.yielded[i].ds <= iter.yielded[j].ds
    /\ ( /\ iter.datasourceIds = ScenarioE.datasourceIds
         /\ iter.batchSize = ScenarioE.batchSize
         /\ iter.pc = "done" )
       => Shape(iter.yielded) =
            << <<1, 100, 1, TRUE, FALSE>>, <<1, 100, 2, TRUE, FALSE>>,
               <<1, 50, 3, FALSE, FALSE>>, <<2, 0, 1, FALSE, TRUE>> >>

C25_Witness ==
    /\ iter.datasourceIds = ScenarioE.datasourceIds /\ iter.batchSize = ScenarioE.batchSize
    /\ iter.pc = "done" /\ Len(iter.yielded) = 4


----------------------------------------------------------------------------
(* DataBinder.fetchAll in a response format other than iterator *)

\* fetchFromDatasource(dsId, options) for a requested id, the options being valid:
\* the data of the response the method returns, or the Error of the catch block
FetchFromDatasource(dsrc) ==
    LET e == BinderPrepareError([datasourceId |-> dsrc.id, methodName |-> "",
                                 configured |-> dsrc.configured,
                                 schemaOk |-> TRUE, baseOk |-> TRUE])
    IN  IF e # NoError THEN Fail(BinderCatch(e))
        ELSE IF dsrc.kind = "throws" THEN Fail(BinderCatch(RawError("Error", "", 0, 0, FALSE)))
        ELSE Ok(RawData(dsrc))

FetchAllInit ==
    /\ iter \in FetchAllCalls("default")
    /\ request = <<>> /\ auth = <<>> /\ applied = <<>>
    /\ delay = <<>> /\ fetch = <<>> /\ binder = <<>> /\ RetryIdle

\* a loop that would settle every id and return what it obtained
FetchAllNextSettled ==
    /\ iter.format = "default" /\ iter.pc \in {"created", "fetching"}
    /\ LET dsIndex == iter.dsIndex + 1
           childResult == FetchFromDatasource(iter.datasourceIds[dsIndex])
       IN  iter' = [iter EXCEPT !.pc = IF dsIndex = Len(iter.datasourceIds)
                                       THEN "returned" ELSE "fetching",
                                !.dsIndex = dsIndex,
                                !.results = IF childResult.type = "throw" THEN iter.results
                                            ELSE Append(iter.results, childResult.value)]
    /\ UNCHANGED <<retryVars, delay, fetch, binder, request, auth, applied>>

\* one turn of the loop over datasourceIds: await fetchFromDatasource(dsId), then
\* results[dsId] = childResult, and after the last id return results; a rejection
\* leaves fetchAll at once
FetchAllNext ==
    /\ iter.format = "default" /\ iter.pc \in {"created", "fetching"}
    /\ LET dsIndex == iter.dsIndex + 1
           childResult == FetchFromDatasource(iter.datasourceIds[dsIndex])
       IN  iter' =
             IF childResult.type = "throw"
             THEN [iter EXCEPT !.pc = "raised", !.dsIndex = dsIndex]
             ELSE [iter EXCEPT !.pc = IF dsIndex = Len(iter.datasourceIds)
                                      THEN "returned" ELSE "fetching",
                               !.dsIndex = dsIndex,
                               !.results = Append(iter.results, childResult.value)]
    /\ UNCHANGED <<retryVars, delay, fetch, binder, request, auth, applied>>

SpecFetchAll == FetchAllInit /\ [][FetchAllNext]_vars

\* C27: in the default response format the data fetchAll returns for a datasource
\* with a property mapping { title: 'name' } has its items renamed as in the iterator
\* format: each item holds its value under name and has no property title.
C27_MappingAppliedInDefaultFormat ==
    iter.pc = "returned" =>
        \A d \in 1 .. Len(iter.datasourceIds) :
            (iter.datasourceIds[d].mapping.configured /\ iter.datasourceIds[d].kind = "data")
            => \A k \in 1 .. Len(iter.results[d]) :
                  /\ ValueAt(iter.results[d][k], "name") = k
                  /\ ValueAt(iter.results[d][k], "title") = 0

\* the fetch of the d-th requested id raises
FailsAt(d) == FetchFromDatasource(iter.datasourceIds[d]).type = "throw"

\* C39: in a non-iterator response format fetchAll is all-or-nothing: it returns
\* only with one result entry for every requested id, none of which failed; it
\* raises at the first id whose fetch fails, no id later in the list is fetched
\* and the results obtained before are not returned.
C39_FetchAllIsAllOrNothing ==
    /\ iter.pc = "returned" =>
          /\ Len(iter.results) = Len(iter.datasourceIds)
          /\ \A d \in 1 .. Len(iter.datasourceIds) :
                /\ ~FailsAt(d)
                /\ iter.results[d] = FetchFromDatasource(iter.datasourceIds[d]).value
    /\ iter.pc = "raised" =>
          /\ FailsAt(iter.dsIndex)
          /\ \A d \in 1 .. iter.dsIndex - 1 : ~FailsAt(d)
    /\ iter.pc \in {"created", "fetching"} =>
          \A d \in 1 .. iter.dsIndex : ~FailsAt(d)

\* the first of two requested ids has failed: fetchAll has raised, the second id
\* was never fetched
C39_Witness ==
    /\ iter.format = "default" /\ iter.pc = "raised"
    /\ iter.dsIndex = 1 /\ Len(iter.datasourceIds) = 2
    /\ ~FailsAt(2)


----------------------------------------------------------------------------
(* createRestApiDatasource: the getById method *)

\* options?.endpoint || endpoint of fetchData
FinalEndpoint(options, endpoint) ==
    IF Get(options, "endpoint", <<>>) # <<>> THEN options.endpoint ELSE endpoint

\* the endpoint getById hands to fetchData: `${cleanEndpoint}/${options.id}`
getByIdEndpoint(config, options) ==
    LET baseEndpoint == IF Get(options, "endpoint", <<>>) # <<>> THEN options.endpoint
                        ELSE IF Get(config, "defaultEndpoint", <<>>) # <<>>
                             THEN config.defaultEndpoint
                        ELSE <<"/", "d", "a", "t", "a">>
        cleanEndpoint == IF baseEndpoint[Len(baseEndpoint)] = "/"
                         THEN SubSeq(baseEndpoint, 1, Len(baseEndpoint) - 1)
                         ELSE baseEndpoint
    IN  cleanEndpoint \o <<"/">> \o options.id

\* getById(options): an Error without an id; else the URL fetchData requests, or
\* the error of buildUrl
getById(config, options) ==
    IF Get(options, "id", <<>>) = <<>> THEN Fail(RawError("Error", "", 0, 0, FALSE))
    ELSE LET url == buildUrl(config, FinalEndpoint(options, getByIdEndpoint(config, options)))
         IN  IF url.type = "throw" THEN url
             ELSE Ok(RequestUrl(config, FinalEndpoint(options, getByIdEndpoint(config, options)),
                                options))

\* the configurations createRestApiDatasource accepts (baseUrl is not empty) and
\* the options of a getById call
GetByIdCalls ==
    { [op |-> "getById", pc |-> "called", result |-> Fail(NoError),
       config |-> c @@ [baseUrl |-> b, timeout |-> 0, endpoints |-> NoEndpoints],
       options |-> e @@ i] :
        b \in BaseUrls \ {""},
        c \in {NoOptions, [defaultEndpoint |-> <<"/", "u">>],
               [defaultEndpoint |-> <<"/", "u", "/">>]},
        e \in {NoOptions, [endpoint |-> <<"/", "i">>], [endpoint |-> <<"/", "i", "/">>]},
        i \in {NoOptions, [id |-> <<"7">>], [id |-> <<"4", "2">>]} }

GetByIdInit ==
    /\ applied \in GetByIdCalls
    /\ request = <<>> /\ auth = <<>> /\ iter = <<>>
    /\ delay = <<>> /\ fetch = <<>> /\ binder = <<>> /\ RetryIdle

GetById ==
    /\ applied.op = "getById" /\ applied.pc = "called"
    /\ applied' = [applied EXCEPT !.pc = "returned",
                                  !.result = getById(applied.config, applied.options)]
    /\ UNCHANGED <<retryVars, delay, fetch, binder, request, auth, iter>>

SpecGetById == GetByIdInit /\ [][GetById]_vars

\* C28: getById requests the resource at <base endpoint>/<id>: whenever a URL is
\* requested, its path ends with "/" followed by the id, whether the base endpoint
\* is options.endpoint, config.defaultEndpoint or the default /data.
C28_GetByIdPathEndsWithId ==
    (applied.pc = "returned" /\ applied.result.type = "return")
    => LET path == applied.result.value.pathname
           tail == <<"/">> \o applied.options.id
       IN  /\ Len(path) >= Len(tail)
           /\ SubSeq(path, Len(path) - Len(tail) + 1, Len(path)) = tail


----------------------------------------------------------------------------
(* buildUrl on its own *)

\* the endpoint arguments: none, one config.endpoints names, with and without its
\* leading slash, one the URL parser rejects, and the name of an inherited property
BuildUrlEndpoints ==
    {<<>>, <<"/", "u">>, <<"u">>, <<"/", "w">>, <<"/", "/">>}
        \cup InheritedKeys \cup {<<"/">> \o k : k \in InheritedKeys}

BuildUrlInit ==
    /\ applied \in
         { [op |-> "buildUrl", pc |-> "called", result |-> Fail(NoError),
            config |-> e @@ [baseUrl |-> b, timeout |-> 0], endpoint |-> p] :
             b \in BaseUrls,
             e \in {NoOptions, [endpoints |-> NoEndpoints],
                    [endpoints |-> <<"u">> :> <<"/", "v">>]},
             p \in BuildUrlEndpoints }
    /\ request = <<>> /\ auth = <<>> /\ iter = <<>>
    /\ delay = <<>> /\ fetch = <<>> /\ binder = <<>> /\ RetryIdle

BuildUrl ==
    /\ applied.op = "buildUrl" /\ applied.pc = "called"
    /\ applied' = [applied EXCEPT !.pc = "returned",
                                  !.result = buildUrl(applied.config, applied.endpoint)]
    /\ UNCHANGED <<retryVars, delay, fetch, binder, request, auth, iter>>

SpecBuildUrl == BuildUrlInit /\ [][BuildUrl]_vars

\* C29: whenever the base address is absent or malformed (it is empty or does not
\* parse as a URL), buildUrl fails, and the error is an InvalidConfig error.
C29_BadBaseIsInvalidConfig ==
    ( /\ applied.pc = "returned"
      /\ (applied.config.baseUrl = "" \/ ~UrlParses(applied.config.baseUrl)) )
    => /\ applied.result.type = "throw"
       /\ applied.result.error.kind = "InvalidConfig"


----------------------------------------------------------------------------
(* sanitizeString on its own *)

\* the characters of the inputs: the two of the traversal sequence, a letter, a
\* control character and one of the characters of the second replace
InputChars == {".", "/", "a", "\t", ";"}

SanitizeInit ==
    /\ applied \in
         { [op |-> "sanitizeString", pc |-> "called", result |-> <<>>, input |-> in] :
             in \in UNION {[1 .. len -> InputChars] : len \in 0 .. MaxInputLen} }
    /\ request = <<>> /\ auth = <<>> /\ iter = <<>>
    /\ delay = <<>> /\ fetch = <<>> /\ binder = <<>> /\ RetryIdle

Sanitize ==
    /\ applied.op = "sanitizeString" /\ applied.pc = "called"
    /\ applied' = [applied EXCEPT !.pc = "returned", !.result = sanitizeString(applied.input)]
    /\ UNCHANGED <<retryVars, delay, fetch, binder, request, auth, iter>>

SpecSanitize == SanitizeInit /\ [][Sanitize]_vars

\* C30: for every input string the output of sanitizeString contains no control
\* character and no directory-traversal sequence "../".
C30_NoControlCharNoTraversal ==
    applied.pc = "returned" =>
        /\ \A i \in 1 .. Len(applied.result) : applied.result[i] \notin ControlChars
        /\ \A i \in 1 .. Len(applied.result) - 2 :
              SubSeq(applied.result, i, i + 2) # <<".", ".", "/">>


----------------------------------------------------------------------------
(* Timers and invocations of one withRetry call *)

\* C38: when a withRetry call has returned or raised, no per-attempt timeout
\* timer created by that call is still pending.
C38_NoTimerPendingWhenDone == pc = "done" => timers = {}


\* C37: within one withRetry call at most one invocation of the operation is in
\* flight at any time, also after an attempt has ended by its per-attempt timeout.
C37_AtMostOneInvocationInFlight == Cardinality(inflight) <= 1



----------------------------------------------------------------------------
(* Termination of the batch iterator *)

\* what is left of the iteration: the datasource ids not yet left behind, and the
\* items of the current id not yet handed out; below zero once the generator has
\* completed or thrown
IterMeasure(it) ==
    LET L == Len(it.datasourceIds)
        K == 1 + CHOOSE m \in {it.datasourceIds[d].n : d \in 1 .. L} :
                    \A d \in 1 .. L : it.datasourceIds[d].n <= m
    IN  CASE it.pc = "created" -> (L + 1) * K
          [] it.pc = "yielded" ->
                LET n == Len(AllData(it.datasourceIds[it.dsIndex]).value)
                IN  (L - it.dsIndex) * K + (n - Min((it.batchIndex + 1) * it.batchSize, n))
          [] it.pc = "yieldedError" -> (L - it.dsIndex) * K
          [] OTHER -> 0 - 1

\* C36: the batch iterator terminates, for every list of datasource ids whose
\* fetches return finite results and every batchSize the caller passes, 0
\* included: every next() leaves less of the iteration to do (it hands out items
\* not handed out before, or leaves a datasource id behind), so that the iterator
\* completes after finitely many batches.
C36_IteratorTerminates == [][IterMeasure(iter') < IterMeasure(iter)]_vars

\* with a batchSize of 1 or more every next() leaves less to do
ProgressWithPositiveBatchSize ==
    [][iter.batchSize >= 1 => IterMeasure(iter') < IterMeasure(iter)]_vars

\* a consumer that keeps asking for the next batch sees the iterator complete or
\* throw
IteratorCompletes == <>(iter.pc \in {"done", "threw"})

\* only a batch loop that never ends fills the log of yielded batches: a
\* batchSize of 0 for a list that is not empty, every batch empty and announcing a
\* next page
OnlyBatchSizeZeroRunsOn ==
    (iter.pc = "yielded" /\ Len(iter.yielded) = MaxYields)
    => /\ iter.batchSize = 0
       /\ Len(AllData(iter.datasourceIds[iter.dsIndex]).value) >= 1
       /\ LET last == iter.yielded[Len(iter.yielded)].batch
          IN  last.data = <<>> /\ last.hasNextPage /\ last.totalPages = Infinity



----------------------------------------------------------------------------
(* buildUrl: the query string *)

\* the characters encodeURIComponent escapes, of those the model writes, with the
\* two hexadecimal digits of the escape (DQ is the double quote)
PercentCodes ==
    [c \in {"{", "}", "[", "]", ":", ",", "DQ", "%"} |->
        CASE c = "{" -> <<"7", "B">>  [] c = "}" -> <<"7", "D">>
          [] c = "[" -> <<"5", "B">>  [] c = "]" -> <<"5", "D">>
          [] c = ":" -> <<"3", "A">>  [] c = "," -> <<"2", "C">>
          [] c = "DQ" -> <<"2", "2">> [] c = "%" -> <<"2", "5">>]

\* encodeURIComponent(s) on a sequence of characters: letters and digits stay, the rest becomes %XX
RECURSIVE PercentEncode(_)
PercentEncode(s) ==
    IF s = <<>> THEN <<>>
    ELSE (IF Head(s) \in DOMAIN PercentCodes THEN <<"%">> \o PercentCodes[Head(s)]
          ELSE <<Head(s)>>) \o PercentEncode(Tail(s))

\* the serializer of url.searchParams in url.toString(): on the characters of the
\* model it escapes what encodeURIComponent escapes, the percent sign included
FormEncode(s) == PercentEncode(s)

\* URL-decoding, once: every %XX becomes its character
RECURSIVE UrlDecode(_)
UrlDecode(s) ==
    IF s = <<>> THEN <<>>
    ELSE IF /\ Head(s) = "%" /\ Len(s) >= 3
            /\ \E c \in DOMAIN PercentCodes : PercentCodes[c] = SubSeq(s, 2, 3)
         THEN <<CHOOSE c \in DOMAIN PercentCodes : PercentCodes[c] = SubSeq(s, 2, 3)>>
              \o UrlDecode(SubSeq(s, 4, Len(s)))
         ELSE <<Head(s)>> \o UrlDecode(Tail(s))

\* sanitizeQueryParam(value) for a string value
sanitizeQueryParam(value) == PercentEncode(sanitizeString(value))

\* the values of query.filters: typeof value, JSON.stringify(value) and String(value)
FilterValue(type, json, string) == [type |-> type, json |-> json, string |-> string]

FilterValues ==
    {FilterValue("object", <<"{", "DQ", "a", "DQ", ":", "1", "}">>, <<"o">>),   \* { a: 1 }
     FilterValue("object", <<"[", "1", ",", "2", "]">>, <<"1", ",", "2">>),     \* [1, 2]
     FilterValue("object", <<"{", "}">>, <<"o">>),                              \* {}
     FilterValue("object", <<"n", "u", "l", "l">>, <<"n", "u", "l", "l">>),     \* null
     FilterValue("number", <<"5">>, <<"5">>),                                   \* 5
     FilterValue("string", <<"DQ", "x", "DQ">>, <<"x">>)}                       \* 'x'

\* String(n) for the page numbers of the model
NumberString(n) == <<<<"0">>, <<"1">>, <<"2">>, <<"3">>>>[n + 1]

\* a search parameter as url.toString() writes it
Param(name, value) == [name |-> FormEncode(name), value |-> FormEncode(value)]

\* the appends for pagination
PaginationParams(pagination) ==
    IF ~pagination.enabled THEN <<>>
    ELSE <<Param(<<"p", "a", "g", "e">>,
                 NumberString(IF pagination.startPage # 0 THEN pagination.startPage ELSE 1))>>
         \o (IF pagination.pageSize # 0
             THEN <<Param(<<"p", "a", "g", "e", "S", "i", "z", "e">>,
                          NumberString(pagination.pageSize))>>
             ELSE <<>>)

\* the appends of the loop over Object.entries(query.filters)
FilterParams(filters) ==
    [i \in 1 .. Len(filters) |->
        Param(sanitizeString(filters[i].key),
              IF filters[i].value.type = "object"
              THEN sanitizeQueryParam(filters[i].value.json)
              ELSE sanitizeQueryParam(filters[i].value.string))]

\* sortParams: field:direction of every entry, joined by commas
RECURSIVE SortString(_)
SortString(sort) ==
    IF sort = <<>> THEN <<>>
    ELSE sanitizeString(Head(sort).field) \o <<":">>
         \o (IF Head(sort).direction = "desc" THEN <<"d", "e", "s", "c">> ELSE <<"a", "s", "c">>)
         \o (IF Tail(sort) = <<>> THEN <<>> ELSE <<",">> \o SortString(Tail(sort)))

SortParams(sort) ==
    IF sort = <<>> THEN <<>> ELSE <<Param(<<"s", "o", "r", "t">>, SortString(sort))>>

\* a mutant of NewSearchParams: the parameters of the URL built before are kept
SharedSearchParams(previous) == previous

\* let url = new URL(customEndpoint, safeBaseUrl): a fresh URL, whatever was built
\* before; its search parameters are empty
NewSearchParams(previous) == <<>>

\* buildUrl(config, endpoint, pagination, query): url.toString(), read as origin,
\* pathname and the search parameters in order, or the error raised; previous is
\* the search of the URL built by the call before
buildUrlString(config, endpoint, pagination, query, previous) ==
    LET u == buildUrl(config, endpoint)
    IN  IF u.type = "throw" THEN u
        ELSE Ok([origin |-> u.value.base, pathname |-> u.value.path,
                 search |-> NewSearchParams(previous) \o PaginationParams(pagination)
                            \o FilterParams(query.filters) \o SortParams(query.sort)])

\* the filters of the model: up to MaxFilters entries under distinct keys
MaxFilters == 2

\* the property names of the filters, in the order Object.entries lists them
FilterKeys == <<<<"a">>, <<"b">>, <<"c">>, <<"d">>>>

FilterLists ==
    UNION {{[i \in 1 .. len |-> [key |-> FilterKeys[i], value |-> vs[i]]] :
        vs \in [1 .. len -> FilterValues]} : len \in 0 .. MaxFilters}

QueryInit ==
    /\ applied \in
         { [op |-> "buildUrlQuery", pc |-> "called", urls |-> <<>>,
            config |-> [baseUrl |-> b, timeout |-> 0], endpoint |-> <<"/", "u">>,
            pagination |-> p, query |-> [filters |-> f, sort |-> s]] :
             b \in {"https://api.example.com", "not a url"},
             p \in {[enabled |-> FALSE, startPage |-> 0, pageSize |-> 0],
                    [enabled |-> TRUE, startPage |-> 0, pageSize |-> 0],
                    [enabled |-> TRUE, startPage |-> 2, pageSize |-> 3]},
             f \in FilterLists,
             s \in {<<>>, <<[field |-> <<"a">>, direction |-> "desc"],
                            [field |-> <<"b">>, direction |-> "up"]>>} }
    /\ request = <<>> /\ auth = <<>> /\ iter = <<>>
    /\ delay = <<>> /\ fetch = <<>> /\ binder = <<>> /\ RetryIdle

\* one call of buildUrl with the inputs of the state; the model makes two
BuildUrlQuery ==
    /\ applied.op = "buildUrlQuery" /\ applied.pc \in {"called", "once"}
    /\ LET n == Len(applied.urls)
           previous == IF n = 0 \/ applied.urls[n].type = "throw" THEN <<>>
                       ELSE applied.urls[n].value.search
       IN  applied' = [applied EXCEPT
                          !.pc = IF applied.pc = "called" THEN "once" ELSE "twice",
                          !.urls = Append(applied.urls,
                                      buildUrlString(applied.config, applied.endpoint,
                                                     applied.pagination, applied.query,
                                                     previous))]
    /\ UNCHANGED <<retryVars, delay, fetch, binder, request, auth, iter>>

SpecQuery == QueryInit /\ [][BuildUrlQuery]_vars

\* the values, URL-decoded once, of the parameters of url under the name key
ParamValues(url, key) ==
    {UrlDecode(url.search[j].value) :
        j \in {i \in 1 .. Len(url.search) : UrlDecode(url.search[i].name) = key}}

\* C31: for every filter entry whose value is an object, the value of the query
\* parameter of that name in the URL built by buildUrl, once URL-decoded, is the
\* JSON encoding of the object.
C31_ObjectFilterIsItsJson ==
    \A n \in 1 .. Len(applied.urls) :
        applied.urls[n].type = "return"
        => \A i \in 1 .. Len(applied.query.filters) :
              LET entry == applied.query.filters[i]
              IN  entry.value.type = "object"
                  => ParamValues(applied.urls[n].value, entry.key) = {entry.value.json}

----------------------------------------------------------------------------
(* fetchData: the rendering of the response body *)

\* JSON values: lists, objects with or without the properties items and data,
\* null, numbers and strings; Absent is the value of a property an object lacks
Absent == [t |-> "undefined"]

JsonNull == [t |-> "null"]

JsonNumber(n) == [t |-> "number", n |-> n]

JsonString(s) == [t |-> "string", s |-> s]

JsonList(elems) == [t |-> "list", elems |-> elems]

JsonObject(items, data) == [t |-> "object", items |-> items, data |-> data]

EmptyObject == JsonObject(Absent, Absent)

\* what the properties items and data of a body hold in the model
FieldValues ==
    {Absent, JsonNull, JsonNumber(0), JsonString("none"),
     JsonList(<<>>), JsonList(<<JsonNumber(1), JsonNumber(2)>>), EmptyObject}

\* the bodies a remote answers with: JSON texts, and a text that is no JSON
Unparsable == [t |-> "unparsable"]

ResponseBodies ==
    {Unparsable, JsonNull, JsonNumber(5), JsonString("ok"),
     JsonList(<<>>), JsonList(<<JsonNumber(1)>>)}
        \cup {JsonObject(i, d) : i \in FieldValues, d \in FieldValues}

\* JavaScript truthiness of a value
Truthy(v) ==
    /\ v.t \notin {"undefined", "null"}
    /\ (v.t = "number" => v.n # 0)
    /\ (v.t = "string" => v.s # "")

\* value.items and value.data: a property read throws on null, gives undefined
\* on a number or a string
ReadThrows(v) == v.t \in {"null", "undefined"}

GetItems(v) == IF v.t = "object" THEN v.items ELSE Absent

GetData(v) == IF v.t = "object" THEN v.data ELSE Absent

\* Array.isArray(data) ? data : (data.items || data.data || [data])
BatchItems(data) ==
    IF data.t = "list" THEN Ok(data)
    ELSE IF ReadThrows(data) THEN Fail(TypeError)
    ELSE IF Truthy(GetItems(data)) THEN Ok(GetItems(data))
    ELSE IF Truthy(GetData(data)) THEN Ok(GetData(data))
    ELSE Ok(JsonList(<<data>>))

\* let data; try { data = await response.json() } catch { data = {} }
ParsedBody(body) == IF body = Unparsable THEN Ok(EmptyObject) ELSE Ok(body)

\* the part of the try block after the status check, for an answer with status
\* 200: the data of the result returned in each response format, or the exception
RenderResponse(options, body) ==
    IF Get(options, "responseFormat", "") = "stream" THEN Ok(Absent)
    ELSE IF Get(options, "fullResponse", FALSE)
    THEN Ok(IF body = Unparsable THEN JsonNull ELSE body)
    ELSE LET data == ParsedBody(body)
         IN  IF data.type = "throw" THEN data
             ELSE IF Get(options, "responseFormat", "") = "batch" THEN BatchItems(data.value)
             ELSE data

RenderInit ==
    /\ applied \in
         { [op |-> "render", pc |-> "answered", result |-> Fail(NoError),
            options |-> o, body |-> b] :
             o \in {NoOptions, [responseFormat |-> "batch"], [responseFormat |-> "stream"],
                    [fullResponse |-> TRUE],
                    [responseFormat |-> "batch", fullResponse |-> TRUE]},
             b \in ResponseBodies }
    /\ request = <<>> /\ auth = <<>> /\ iter = <<>>
    /\ delay = <<>> /\ fetch = <<>> /\ binder = <<>> /\ RetryIdle

\* the attempt renders the answer: the try block returns the result, or throws
Render ==
    /\ applied.op = "render" /\ applied.pc = "answered"
    /\ LET r == RenderResponse(applied.options, applied.body)
       IN  applied' = [applied EXCEPT
                          !.pc = IF r.type = "throw" THEN "raised" ELSE "returned",
                          !.result = r]
    /\ UNCHANGED <<retryVars, delay, fetch, binder, request, auth, iter>>

SpecRender == RenderInit /\ [][Render]_vars

\* the batch rendering: responseFormat is batch and the full response is not asked for
BatchFormat(options) ==
    Get(options, "responseFormat", "") = "batch" /\ ~Get(options, "fullResponse", FALSE)

\* C33: in the batch response format the call does not fail because of the shape
\* of the decoded body, and the data of the result is an item list: the body
\* itself if it is a list, else its items field or its data field, else a
\* single-element list wrapping the body.
C33_BatchDataIsAnItemList ==
    ( /\ applied.pc # "answered"
      /\ BatchFormat(applied.options)
      /\ applied.body # Unparsable )
    => /\ applied.pc = "returned"
       /\ applied.result.value.t = "list"
       /\ LET body == applied.body
          IN  applied.result.value =
                IF body.t = "list" THEN body
                ELSE IF GetItems(body) # Absent THEN GetItems(body)
                ELSE IF GetData(body) # Absent THEN GetData(body)
                ELSE JsonList(<<body>>)

\* the rendering reads the body: every format but stream
ReadsBody(options) == Get(options, "responseFormat", "") # "stream"

\* C34: a body that cannot be decoded as JSON never fails a fetchData call: in
\* every response format that reads the body the call succeeds and the data of the
\* result is an empty object.
C34_UndecodableBodyGivesEmptyObject ==
    ( /\ applied.pc # "answered"
      /\ ReadsBody(applied.options)
      /\ applied.body = Unparsable )
    => /\ applied.pc = "returned"
       /\ applied.result.value = EmptyObject



----------------------------------------------------------------------------
(* DatasourceCatalog: instances, saveInstancesToFile and loadInstancesFromFile *)

\* the createDatasourceInstance calls of one run, and the values of Date.now()
MaxCreates == 3

MaxNow == 2

\* the definitions registered in the catalog, and an id that is not registered
Definitions == {"rest-api"}

DefinitionIds == Definitions \cup {"soap"}

InstanceConfigs == {"config1", "config2"}

\* `${definitionId}_${Date.now()}`
GeneratedId(definitionId, now) == <<definitionId, "_", now>>

\* the instanceId arguments: none, a custom id, and an id of the generated form
InstanceIds == {<<>>, <<"my-custom-id">>, GeneratedId("rest-api", 1)}

\* this.instances.get(instanceId): the instance, or <<>> for undefined
MapGet(entries, id) ==
    IF \E i \in 1 .. Len(entries) : entries[i].id = id
    THEN entries[CHOOSE i \in 1 .. Len(entries) : entries[i].id = id]
    ELSE <<>>

\* this.instances.set(id, instance): the entry of an id the map holds is replaced
\* in its place, a new id is added at the end
MapSet(entries, instance) ==
    IF \E i \in 1 .. Len(entries) : entries[i].id = instance.id
    THEN [i \in 1 .. Len(entries) |->
             IF entries[i].id = instance.id THEN instance ELSE entries[i]]
    ELSE Append(entries, instance)

\* createDatasourceInstance(definitionId, config, instanceId) on the instances of
\* a catalog at time now: the instance created (serial tells the objects apart),
\* or the Error for a definition that is not registered
createDatasourceInstance(definitionId, config, instanceId, now, serial) ==
    IF definitionId \notin Definitions THEN Fail(RawError("Error", "", 0, 0, FALSE))
    ELSE Ok([id |-> IF instanceId # <<>> THEN instanceId ELSE GeneratedId(definitionId, now),
             definitionId |-> definitionId, config |-> config, serial |-> serial])

\* serializeInstances(includeMetadata), as JSON.stringify writes it: the dates of
\* the metadata are strings in the text
serializeInstances(instances, includeMetadata) ==
    [i \in 1 .. Len(instances) |->
        [id |-> instances[i].id, definitionId |-> instances[i].definitionId,
         config |-> instances[i].config,
         metadata |-> IF includeMetadata THEN [createdAt |-> "string", updatedAt |-> "string"]
                      ELSE <<>>]]

\* the characters sanitizeFilename replaces by an underscore
UnsafeFilenameChars == {"/", "?", "<", ">", "\\", ":", "*", "|", "DQ"}

RECURSIVE DropLeadingDots(_)
DropLeadingDots(s) == IF s # <<>> /\ Head(s) = "." THEN DropLeadingDots(Tail(s)) ELSE s

sanitizeFilename(filename) ==
    DropLeadingDots([i \in 1 .. Len(filename) |->
                        IF filename[i] \in UnsafeFilenameChars THEN "_" ELSE filename[i]])

\* the file names of the model, in one directory: datasources.json as d.json, a
\* dot file and a name with a colon
FilePaths == {<<"d", ".", "j">>, <<".", "d", ".", "j">>, <<"d", ":", "j">>}

\* the schema of loadInstancesFromFile accepts the parsed text: z.date() rejects
\* the strings JSON.parse gives for createdAt and updatedAt
FileIsValid(content) ==
    \A i \in 1 .. Len(content) :
        content[i].metadata # <<>> =>
            /\ content[i].metadata.createdAt = "date"
            /\ content[i].metadata.updatedAt = "date"

\* restoreInstances(instances) on the instances of a catalog: every entry is
\* created under its id; an entry whose creation throws is skipped
RECURSIVE restoreInstances(_, _, _)
restoreInstances(entries, serialized, now) ==
    IF serialized = <<>> THEN entries
    ELSE LET s == Head(serialized)
             r == createDatasourceInstance(s.definitionId, s.config, s.id, now,
                                           Len(entries) + 1)
         IN  restoreInstances(IF r.type = "throw" THEN entries ELSE MapSet(entries, r.value),
                              Tail(serialized), now)

\* a new catalog with its definitions registered; created lists the instances the
\* createDatasourceInstance calls have returned, with whether an id was given
CatalogInit ==
    /\ applied = [op |-> "catalog", pc |-> "open", instances |-> <<>>, now |-> 1,
                  created |-> <<>>, path |-> <<>>, written |-> <<>>, file |-> <<>>,
                  restored |-> <<>>]
    /\ request = <<>> /\ auth = <<>> /\ iter = <<>>
    /\ delay = <<>> /\ fetch = <<>> /\ binder = <<>> /\ RetryIdle

CreateInstance ==
    /\ applied.op = "catalog" /\ applied.pc = "open"
    /\ Len(applied.created) < MaxCreates
    /\ \E definitionId \in DefinitionIds, config \in InstanceConfigs, instanceId \in InstanceIds :
         LET r == createDatasourceInstance(definitionId, config, instanceId, applied.now,
                                           Len(applied.created) + 1)
         IN  /\ r.type = "return"
             /\ applied' = [applied EXCEPT
                               !.instances = MapSet(applied.instances, r.value),
                               !.created = Append(applied.created,
                                                  [instance |-> r.value,
                                                   explicit |-> instanceId # <<>>])]
    /\ UNCHANGED <<retryVars, delay, fetch, binder, request, auth, iter>>

\* createDatasourceInstance for a definition the catalog does not hold throws
CreateInstanceThrows ==
    /\ applied.op = "catalog" /\ applied.pc = "open"
    /\ \E definitionId \in DefinitionIds, config \in InstanceConfigs :
         createDatasourceInstance(definitionId, config, <<>>, applied.now, 0).type = "throw"
    /\ applied' = [applied EXCEPT !.pc = "createThrew"]
    /\ UNCHANGED <<retryVars, delay, fetch, binder, request, auth, iter>>

\* a millisecond passes
ClockTick ==
    /\ applied.op = "catalog" /\ applied.pc \in {"open", "createThrew"}
    /\ applied.now < MaxNow
    /\ applied' = [applied EXCEPT !.now = applied.now + 1, !.pc = "open"]
    /\ UNCHANGED <<retryVars, delay, fetch, binder, request, auth, iter>>

\* saveInstancesToFile(filePath, includeMetadata): the text is written under the
\* sanitized base name
SaveInstancesToFile ==
    /\ applied.op = "catalog" /\ applied.pc = "open"
    /\ \E filePath \in FilePaths, includeMetadata \in BOOLEAN :
         applied' = [applied EXCEPT
                        !.pc = "saved",
                        !.path = filePath,
                        !.written = sanitizeFilename(filePath),
                        !.file = serializeInstances(applied.instances, includeMetadata)]
    /\ UNCHANGED <<retryVars, delay, fetch, binder, request, auth, iter>>

\* loadInstancesFromFile(filePath), the path of the save, on a catalog with the same
\* definitions and no instance: a missing file is passed over, a text the schema
\* rejects raises, else the instances are restored
LoadInstancesFromFile ==
    /\ applied.op = "catalog" /\ applied.pc = "saved"
    /\ applied' =
         IF applied.written # applied.path THEN [applied EXCEPT !.pc = "loaded"]
         ELSE IF ~FileIsValid(applied.file) THEN [applied EXCEPT !.pc = "loadRaised"]
         ELSE [applied EXCEPT !.pc = "loaded",
                              !.restored = restoreInstances(<<>>, applied.file, applied.now)]
    /\ UNCHANGED <<retryVars, delay, fetch, binder, request, auth, iter>>

NextCatalog ==
    \/ CreateInstance
    \/ CreateInstanceThrows
    \/ ClockTick
    \/ SaveInstancesToFile
    \/ LoadInstancesFromFile

SpecCatalog == CatalogInit /\ [][NextCatalog]_vars

\* the catalog of the load holds an instance with the id, definitionId and config
\* of the instance s
Restored(s) ==
    \E i \in 1 .. Len(applied.restored) :
        /\ applied.restored[i].id = s.id
        /\ applied.restored[i].definitionId = s.definitionId
        /\ applied.restored[i].config = s.config

\* C35: the instances saved with saveInstancesToFile(path, includeMetadata), for
\* either value of includeMetadata, are restored by loadInstancesFromFile(path) on
\* a catalog with the same definitions: after the load that catalog holds an
\* instance with the same id, definitionId and config for every saved instance.
C35_SavedInstancesAreRestored ==
    (applied.op = "catalog" /\ applied.pc \in {"loaded", "loadRaised"})
    => \A i \in 1 .. Len(applied.instances) : Restored(applied.instances[i])

\* C40: after any sequence of createDatasourceInstance calls every instance
\* created without an explicit instanceId has an id distinct from that of every
\* other instance created, and every instance created is still the one the catalog
\* returns for its id: no creation has replaced an instance created earlier.
C40_CreatedInstancesKeepDistinctIds ==
    applied.op = "catalog"
    => \A i \in 1 .. Len(applied.created) :
          /\ MapGet(applied.instances, applied.created[i].instance.id)
                = applied.created[i].instance
          /\ ~applied.created[i].explicit
             => \A j \in 1 .. Len(applied.created) :
                   j # i => applied.created[j].instance.id # applied.created[i].instance.id

====
